---- MODULE Spec2Model ----
(***************************************************************************)
(* Notification-preference synchronisation of the customer portal:        *)
(* the preferences page (src/app/notification-preferences/page.tsx), the  *)
(* mapping table (config/brazeConfig.ts, config/notificationData.ts) and  *)
(* the Braze service calls the page makes (lib/services/braze.ts).        *)
(*                                                                         *)
(* Identifiers are the first two hex digits of the UUIDs of the source,    *)
(* kept as sequences of characters so that the composite key              *)
(* `${topic.id}_${channel.id}` and key.split('_') are computed, not        *)
(* assumed.  A JavaScript object is a sequence of <<key, value>> pairs in  *)
(* insertion order, which is what Object.keys and JSON.stringify see.      *)
(***************************************************************************)
EXTENDS Integers, Sequences, FiniteSets, TLC

\* ------------------------------------------------------------------ bounds
\* user edits (toggle, Select All, Clear All, revert) explored per session
MaxEdits == 2
\* invocations of handleSavePreferences explored per session
MaxCycles == 2
\* calls of login() and logout() explored per session
MaxAuthCalls == 3
\* submissions of the registration form explored per session
MaxSubmits == 1
\* answers to the opt-in popup of the dashboard explored per session
MaxResponses == 2
\* cells in which snapshot and desired differ in the inputs of DiffSpec
MaxDiff == 2
\* records in the opt-out list the load of LoadSpec receives
MaxFetched == 2

\* ------------------------------------------------- static configuration
SYSTEM == <<"3", "d">>
BILLING == <<"2", "6">>
MARKETING == <<"d", "1">>
SUPPORT == <<"e", "5">>
SERVICE_UPDATES == <<"3", "1">>
EMAIL == <<"3", "d">>
IN_APP == <<"d", "1">>

TOPICS_DATA ==
    << [id |-> SYSTEM, name |-> "System", can_opt_out |-> FALSE],
       [id |-> BILLING, name |-> "Billing", can_opt_out |-> TRUE],
       [id |-> MARKETING, name |-> "Marketing", can_opt_out |-> TRUE],
       [id |-> SUPPORT, name |-> "Support", can_opt_out |-> TRUE],
       [id |-> SERVICE_UPDATES, name |-> "Service Updates", can_opt_out |-> TRUE] >>

CHANNELS_DATA ==
    << [id |-> EMAIL, name |-> "Email"],
       [id |-> IN_APP, name |-> "In-App"] >>

BRAZE_SUBSCRIPTION_GROUPS ==
    [MARKETING_EMAIL |-> "d220614c", MARKETING_IN_APP |-> "a33e57e6",
     SERVICE_UPDATES_EMAIL |-> "7e206bbe", SERVICE_UPDATES_IN_APP |-> "13dab92d"]

UPMIND_TO_BRAZE_MAP ==
    (MARKETING :> ((EMAIL :> BRAZE_SUBSCRIPTION_GROUPS.MARKETING_EMAIL)
                   @@ (IN_APP :> BRAZE_SUBSCRIPTION_GROUPS.MARKETING_IN_APP)))
    @@ (SERVICE_UPDATES :> ((EMAIL :> BRAZE_SUBSCRIPTION_GROUPS.SERVICE_UPDATES_EMAIL)
                   @@ (IN_APP :> BRAZE_SUBSCRIPTION_GROUPS.SERVICE_UPDATES_IN_APP)))

RELEVANT_UPMIND_TOPICS_FOR_BRAZE_SYNC == << MARKETING, SERVICE_UPDATES >>

\* --------------------------------------------------- JavaScript values
\* A value that may be undefined: <<>> is undefined, <<v>> is v.
Undefined == << >>
Some(v) == << v >>
\* !x and (x ? a : b) on a boolean that may be undefined
Truthy(x) == x = Some(TRUE)

Includes(seq, x) == \E i \in 1..Len(seq) : seq[i] = x
Range(seq) == { seq[i] : i \in 1..Len(seq) }

\* An object: a sequence of <<key, value>> in insertion order.
ObjHas(o, k) == \E i \in 1..Len(o) : o[i][1] = k
ObjGet(o, k) ==
    IF ObjHas(o, k) THEN Some(o[CHOOSE i \in 1..Len(o) : o[i][1] = k][2])
    ELSE Undefined
ObjSet(o, k, v) ==
    IF ObjHas(o, k)
    THEN [i \in 1..Len(o) |-> IF o[i][1] = k THEN <<k, v>> ELSE o[i]]
    ELSE Append(o, <<k, v>>)
ObjKeys(o) == [i \in 1..Len(o) |-> o[i][1]]

\* `${topicId}_${channelId}`
PrefKey(topicId, channelId) == topicId \o <<"_">> \o channelId

\* key.split('_'): the segments between the separators
RECURSIVE SplitFrom(_, _, _, _)
SplitFrom(s, i, cur, acc) ==
    IF i > Len(s) THEN Append(acc, cur)
    ELSE IF s[i] = "_" THEN SplitFrom(s, i + 1, << >>, Append(acc, cur))
    ELSE SplitFrom(s, i + 1, Append(cur, s[i]), acc)
Split(s) == SplitFrom(s, 1, << >>, << >>)

\* The mapping table of the running build.  It is UPMIND_TO_BRAZE_MAP in every
\* specification of the application; DefectSpec runs the same code on tables
\* edited to send two keys to one group.
VARIABLE upmindToBrazeMap

\* UPMIND_TO_BRAZE_MAP[topic.id]?.[channel.id]
BrazeGroupId(topicId, channelId) ==
    IF topicId \in DOMAIN upmindToBrazeMap
    THEN IF channelId \in DOMAIN upmindToBrazeMap[topicId]
         THEN Some(upmindToBrazeMap[topicId][channelId])
         ELSE Undefined
    ELSE Undefined

NT == Len(TOPICS_DATA)
NC == Len(CHANNELS_DATA)

\* ------------------------------------------------------ fetchUserOptOuts
\* CHANNELS_DATA.forEach(channel => TOPICS_DATA.forEach(topic => ...)):
\* the i-th visited cell, channels in the outer loop
FetchTopic(i) == TOPICS_DATA[((i - 1) % NT) + 1]

\* a bug: the channel of the outer loop not used, every cell keyed by the first
FetchChannel_FirstOnly(i) == CHANNELS_DATA[1]

FetchChannel(i) == CHANNELS_DATA[((i - 1) \div NT) + 1]

\* a bug: the channel not compared, an opt-out counts for the whole topic
SomeOptOut_TopicOnly(fetchedOptOuts, topicId, channelId) ==
    \E j \in 1..Len(fetchedOptOuts) : fetchedOptOuts[j].topic_id = topicId

\* fetchedOptOuts.some(o => o.topic_id === topic.id && o.channel_id === channel.id)
SomeOptOut(fetchedOptOuts, topicId, channelId) ==
    \E j \in 1..Len(fetchedOptOuts) :
        /\ fetchedOptOuts[j].topic_id = topicId
        /\ fetchedOptOuts[j].channel_id = channelId

\* the value fetchUserOptOuts stores for one cell
FetchedValue(topic, channel, fetchedOptOuts) ==
    IF ~topic.can_opt_out THEN TRUE
    ELSE ~SomeOptOut(fetchedOptOuts, topic.id, channel.id)

RECURSIVE BuildCurrentPrefs(_, _, _)
BuildCurrentPrefs(i, fetchedOptOuts, currentPrefs) ==
    IF i > NT * NC THEN currentPrefs
    ELSE BuildCurrentPrefs(i + 1, fetchedOptOuts,
            ObjSet(currentPrefs,
                   PrefKey(FetchTopic(i).id, FetchChannel(i).id),
                   FetchedValue(FetchTopic(i), FetchChannel(i), fetchedOptOuts)))

CurrentPrefs(fetchedOptOuts) == BuildCurrentPrefs(1, fetchedOptOuts, << >>)

\* ------------------------------------------------- handleSavePreferences
\* TOPICS_DATA.forEach(topic => CHANNELS_DATA.forEach(channel => ...)):
\* the i-th visited cell, topics in the outer loop
SaveTopic(i) == TOPICS_DATA[((i - 1) \div NC) + 1]
SaveChannel(i) == CHANNELS_DATA[((i - 1) % NC) + 1]

\* a bug: the negation dropped, the opted-in cells are sent as opt-outs
IsOptOutCell_Truthy(topic, isOptedIn) == topic.can_opt_out /\ Truthy(isOptedIn)

\* a bug: the can_opt_out test dropped
IsOptOutCell_NoGuard(topic, isOptedIn) == ~Truthy(isOptedIn)

\* if (topic.can_opt_out && !isOptedIn)
IsOptOutCell(topic, isOptedIn) == topic.can_opt_out /\ ~Truthy(isOptedIn)

RECURSIVE BuildOptOuts(_, _, _)
BuildOptOuts(i, currentPreferencesSnapshot, optOuts) ==
    IF i > NT * NC THEN optOuts
    ELSE BuildOptOuts(i + 1, currentPreferencesSnapshot,
            IF IsOptOutCell(SaveTopic(i),
                   ObjGet(currentPreferencesSnapshot,
                          PrefKey(SaveTopic(i).id, SaveChannel(i).id)))
            THEN Append(optOuts, [topic_id |-> SaveTopic(i).id,
                                  channel_id |-> SaveChannel(i).id])
            ELSE optOuts)

OptOutsPayloadUpmind(currentPreferencesSnapshot) ==
    BuildOptOuts(1, currentPreferencesSnapshot, << >>)

\* a bug: the two branches of the conditional exchanged
SubscriptionState_Inverted(isOptedIn) ==
    IF Truthy(isOptedIn) THEN "unsubscribed" ELSE "subscribed"

\* isOptedIn ? "subscribed" : "unsubscribed"
SubscriptionState(isOptedIn) ==
    IF Truthy(isOptedIn) THEN "subscribed" ELSE "unsubscribed"

\* a bug: no relevance test, and a topic without a row in the mapping table
\* falls back to the Marketing group of the channel
BrazeUpdateForCell_Fallback(topic, channel, isOptedIn, updates) ==
    ObjSet(updates,
           IF BrazeGroupId(topic.id, channel.id) # Undefined
           THEN BrazeGroupId(topic.id, channel.id)[1]
           ELSE BrazeGroupId(MARKETING, channel.id)[1],
           SubscriptionState(isOptedIn))

\* a bug: a group that already has a state keeps it, the first key wins
BrazeUpdateForCell_FirstWins(topic, channel, isOptedIn, updates) ==
    IF Includes(RELEVANT_UPMIND_TOPICS_FOR_BRAZE_SYNC, topic.id)
    THEN IF BrazeGroupId(topic.id, channel.id) # Undefined
         THEN IF ObjHas(updates, BrazeGroupId(topic.id, channel.id)[1])
              THEN updates
              ELSE ObjSet(updates, BrazeGroupId(topic.id, channel.id)[1],
                          SubscriptionState(isOptedIn))
         ELSE updates
    ELSE updates

\* the body of the relevance branch for one cell
BrazeUpdateForCell(topic, channel, isOptedIn, updates) ==
    IF Includes(RELEVANT_UPMIND_TOPICS_FOR_BRAZE_SYNC, topic.id)
    THEN IF BrazeGroupId(topic.id, channel.id) # Undefined
         THEN ObjSet(updates, BrazeGroupId(topic.id, channel.id)[1],
                     SubscriptionState(isOptedIn))
         ELSE updates
    ELSE updates

RECURSIVE BuildBrazeUpdates(_, _, _)
BuildBrazeUpdates(i, currentPreferencesSnapshot, updates) ==
    IF i > NT * NC THEN updates
    ELSE BuildBrazeUpdates(i + 1, currentPreferencesSnapshot,
            BrazeUpdateForCell(SaveTopic(i), SaveChannel(i),
                ObjGet(currentPreferencesSnapshot,
                       PrefKey(SaveTopic(i).id, SaveChannel(i).id)),
                updates))

BrazeSubscriptionUpdatesSDK(currentPreferencesSnapshot) ==
    BuildBrazeUpdates(1, currentPreferencesSnapshot, << >>)

\* the insertion order of new Set(keys): the first occurrence of each key
RECURSIVE Dedup(_, _)
Dedup(seq, acc) ==
    IF seq = << >> THEN acc
    ELSE Dedup(Tail(seq),
               IF Includes(acc, Head(seq)) THEN acc ELSE Append(acc, Head(seq)))

\* a bug: the two key lists concatenated without the Set
AllKeys_NoDedup(currentPreferencesSnapshot, originalInitialPreferences) ==
    ObjKeys(currentPreferencesSnapshot) \o ObjKeys(originalInitialPreferences)

\* new Set([...Object.keys(current), ...Object.keys(original)])
AllKeys(currentPreferencesSnapshot, originalInitialPreferences) ==
    Dedup(ObjKeys(currentPreferencesSnapshot) \o ObjKeys(originalInitialPreferences), << >>)

\* a bug: every key that has a new value counts as changed
StateChanged_Defined(newOptInState, oldOptInState) == newOptInState # Undefined

\* if (newOptInState !== oldOptInState)
StateChanged(newOptInState, oldOptInState) == newOptInState # oldOptInState

\* a bug: old and new state exchanged in the record
ChangeRecord_Swapped(key, oldOptInState, newOptInState) ==
    [topic_id |-> Split(key)[1],
     channel_id |-> IF Len(Split(key)) >= 2 THEN Split(key)[2] ELSE <<"undefined">>,
     old_state_opted_in |-> newOptInState,
     new_state_opted_in |-> oldOptInState]

\* the record pushed for a changed key
ChangeRecord(key, oldOptInState, newOptInState) ==
    [topic_id |-> Split(key)[1],
     channel_id |-> IF Len(Split(key)) >= 2 THEN Split(key)[2] ELSE <<"undefined">>,
     old_state_opted_in |-> oldOptInState,
     new_state_opted_in |-> newOptInState]

RECURSIVE BuildChanged(_, _, _, _)
BuildChanged(keys, currentPreferencesSnapshot, originalInitialPreferences, changed) ==
    IF keys = << >> THEN changed
    ELSE BuildChanged(Tail(keys), currentPreferencesSnapshot, originalInitialPreferences,
            IF StateChanged(ObjGet(currentPreferencesSnapshot, Head(keys)),
                            ObjGet(originalInitialPreferences, Head(keys)))
            THEN Append(changed,
                        ChangeRecord(Head(keys),
                                     ObjGet(originalInitialPreferences, Head(keys)),
                                     ObjGet(currentPreferencesSnapshot, Head(keys))))
            ELSE changed)

ChangedPreferencesForBrazeEvent(currentPreferencesSnapshot, originalInitialPreferences) ==
    BuildChanged(AllKeys(currentPreferencesSnapshot, originalInitialPreferences),
                 currentPreferencesSnapshot, originalInitialPreferences, << >>)

\* JSON.stringify of an object of booleans: the members in insertion order
RECURSIVE JsonMembers(_, _)
JsonMembers(o, i) ==
    IF i > Len(o) THEN << >>
    ELSE (IF i > 1 THEN <<",">> ELSE << >>)
         \o <<"\"">> \o o[i][1] \o <<"\"", ":">>
         \o (IF o[i][2] THEN <<"true">> ELSE <<"false">>)
         \o JsonMembers(o, i + 1)
JsonStringify(o) == <<"{">> \o JsonMembers(o, 1) \o <<"}">>

\* JSON.stringify(preferences) !== JSON.stringify(initialPreferences)
HasChanges(prefs, initial) == JsonStringify(prefs) # JsonStringify(initial)

\* ------------------------------------------------------------ Braze service
\* BrazeService.updateUserSubscriptionGroupsViaSDK: the value it returns.
\* userAvailable is what braze.getUser() and the SDK calls allow: FALSE when
\* no user object is found or an SDK call throws.
UpdateUserSubscriptionGroupsViaSDK(isInitialized, userAvailable) ==
    IF ~isInitialized THEN FALSE ELSE userAvailable

\* BrazeService.logCustomEvent: whether the event reaches braze.logCustomEvent
LogCustomEvent(isInitialized) == isInitialized

\* ------------------------------------------------------------------ state
VARIABLES
    preferences,          \* useState: the desired matrix being edited
    initialPreferences,   \* useState: the snapshot, last state known saved
    isLoadingPage,        \* useState
    error,                \* useState: "null" or a message
    saveStatus,           \* useState: idle | saving | success | error
    brazeIsInitialized,   \* BrazeService.isInitialized
    fetchState,           \* fetchUserOptOuts: idle | inflight | loaded | failed
    cycles,               \* one record per call of handleSavePreferences
    timers,               \* pending setTimeout(() => setSaveStatus('idle'))
    edits,                \* user edits made so far
    fetchedData,          \* result.data of the GET the matrices were loaded from
    dashboard,            \* the dashboard page and its opt-in popup
    registerForm,         \* RegisterForm: the calls of handleSubmit
    authProvider          \* AuthProvider and BrazeClientInitializer

vars == << preferences, initialPreferences, isLoadingPage, error, saveStatus,
           brazeIsInitialized, fetchState, cycles, timers, edits, fetchedData,
           upmindToBrazeMap, dashboard, registerForm, authProvider >>

\* the state of the preferences page
pageVars == << preferences, initialPreferences, isLoadingPage, error, saveStatus,
               fetchState, cycles, timers, edits, fetchedData >>

\* the state of the other components, which the preferences page leaves alone
otherVars == << upmindToBrazeMap, dashboard, registerForm, authProvider >>

\* localStorage.getItem('access_token'): localStorage is shared with the other
\* tabs of the origin, where login stores the token and logout removes it, so
\* each read finds a token (TRUE) or null (FALSE).
AccessTokenReads == BOOLEAN

\* Opt-out lists the Authority may return on load: the empty list, and one
\* with a non-opt-outable topic, an unknown topic, a cell that occurs twice
\* and a further opt-outable cell.
FetchedLists ==
    { << >>,
      << [topic_id |-> SYSTEM, channel_id |-> EMAIL],
         [topic_id |-> <<"f", "f">>, channel_id |-> IN_APP],
         [topic_id |-> SUPPORT, channel_id |-> IN_APP],
         [topic_id |-> SUPPORT, channel_id |-> IN_APP],
         [topic_id |-> SERVICE_UPDATES, channel_id |-> EMAIL] >> }

\* The topics whose controls the user operates: System (its checkboxes are
\* disabled and it has no Select All) and Marketing (mapped to Braze groups).
EditedTopics == { k \in 1..NT : TOPICS_DATA[k].id \in { SYSTEM, MARKETING } }

\* the other components not mounted, the table as shipped
DashboardIdle ==
    [showNotificationOptIn |-> FALSE,     \* useState(false), held by AuthProvider
     hasUnreadNotification |-> FALSE,     \* useState(false)
     optInStatus |-> "null",              \* localStorage notification_opt_in_status
     dismissedTimestamp |-> FALSE,        \* localStorage: a recent dismissal is stored
     responses |-> << >>]                 \* the calls of handleNotificationOptInResponse
RegisterFormIdle ==
    [error |-> FALSE,          \* useState(''): an error message is shown
     successMsg |-> FALSE,     \* useState(''): a success message is shown
     isLoading |-> FALSE,      \* useState(false)
     submits |-> << >>]        \* the calls of handleSubmit
AuthProviderIdle ==
    [mounted |-> FALSE,
     access_token |-> FALSE,        \* localStorage holds an access_token
     isAuthenticated |-> FALSE,     \* useState(false)
     isLoadingAuth |-> TRUE,        \* useState(true)
     brazeInitialized |-> FALSE,    \* useState(false)
     effect |-> "none",             \* the effect on [brazeInitialized]: none, pending, done
     initBraze |-> "none",          \* the effect of BrazeClientInitializer, likewise
     popupTimer |-> FALSE,          \* the 3.5 s timer of login() is running
     tokenAtLoad |-> << >>,         \* what the effect read when it ended the loading
     calls |-> 0]                   \* login() and logout() so far
OthersIdle ==
    /\ upmindToBrazeMap = UPMIND_TO_BRAZE_MAP
    /\ dashboard = DashboardIdle
    /\ registerForm = RegisterFormIdle
    /\ authProvider = AuthProviderIdle

Init ==
    /\ preferences = << >>
    /\ initialPreferences = << >>
    /\ isLoadingPage = TRUE
    /\ error = "null"
    /\ saveStatus = "idle"
    /\ brazeIsInitialized \in BOOLEAN
    /\ OthersIdle
    /\ fetchState = "idle"
    /\ cycles = << >>
    /\ timers = 0
    /\ edits = 0
    /\ fetchedData = << >>

\* fetchUserOptOuts(true) up to its await
FetchUserOptOuts(token) ==
    /\ fetchState = "idle"
    /\ IF ~token
       THEN /\ error' = "Authentication token not found. Please log in."
            /\ isLoadingPage' = FALSE
            /\ fetchState' = "failed"
       ELSE /\ error' = "null"
            /\ isLoadingPage' = TRUE
            /\ fetchState' = "inflight"
    /\ UNCHANGED << preferences, initialPreferences, saveStatus, brazeIsInitialized, cycles, timers, edits, fetchedData, otherVars >>

\* the GET returned ok with result.data = fetchedOptOuts
FetchOk(fetchedOptOuts) ==
    /\ fetchState = "inflight"
    /\ preferences' = CurrentPrefs(fetchedOptOuts)
    /\ initialPreferences' = CurrentPrefs(fetchedOptOuts)
    /\ isLoadingPage' = FALSE
    /\ fetchState' = "loaded"
    /\ fetchedData' = fetchedOptOuts
    /\ UNCHANGED << error, saveStatus, brazeIsInitialized, cycles, timers, edits, otherVars >>

\* the GET threw or returned a non-ok response
FetchFail ==
    /\ fetchState = "inflight"
    /\ error' = "Upmind API: Failed to fetch preferences"
    /\ saveStatus' = "error"
    /\ isLoadingPage' = FALSE
    /\ fetchState' = "failed"
    /\ UNCHANGED << preferences, initialPreferences, brazeIsInitialized, cycles, timers, edits, fetchedData, otherVars >>

\* ------------------------------------------------------------- user edits
\* the grid of checkboxes and the form render only when not loading, no error
ContentShown == ~isLoadingPage /\ error = "null"

\* checked={preferences[preferenceKey] || false}
Checked(key) == Truthy(ObjGet(preferences, key))

\* a bug: the checkboxes of a non-opt-outable topic left enabled
CheckboxEnabled_Always(topic) == TRUE

\* disabled={isDisabled}: a checkbox fires onChange only for an opt-outable topic
CheckboxEnabled(topic) == topic.can_opt_out

\* a bug: the key built without the separator
handlePreferenceChange_NoSeparator(topicId, channelId, isChecked) ==
    /\ preferences' = ObjSet(preferences, topicId \o channelId, isChecked)
    /\ saveStatus' = "idle"

\* handlePreferenceChange(topicId, channelId, isChecked)
handlePreferenceChange(topicId, channelId, isChecked) ==
    /\ preferences' = ObjSet(preferences, PrefKey(topicId, channelId), isChecked)
    /\ saveStatus' = "idle"

\* a click on an enabled checkbox: e.target.checked is the negated checked prop
ToggleCheckbox(t, c) ==
    /\ ContentShown
    /\ CheckboxEnabled(TOPICS_DATA[t])
    /\ edits < MaxEdits
    /\ edits' = edits + 1
    /\ handlePreferenceChange(TOPICS_DATA[t].id, CHANNELS_DATA[c].id,
                              ~Checked(PrefKey(TOPICS_DATA[t].id, CHANNELS_DATA[c].id)))
    /\ UNCHANGED << initialPreferences, isLoadingPage, error, brazeIsInitialized, fetchState, cycles, timers, fetchedData, otherVars >>

\* CHANNELS_DATA.forEach(channel => newPrefs[`${topicId}_${channel.id}`] = value)
RECURSIVE SetAllChannels(_, _, _, _)
SetAllChannels(newPrefs, topicId, value, j) ==
    IF j > NC THEN newPrefs
    ELSE SetAllChannels(ObjSet(newPrefs, PrefKey(topicId, CHANNELS_DATA[j].id), value),
                        topicId, value, j + 1)

\* CHANNELS_DATA.every(channel => preferences[`${topic.id}_${channel.id}`])
IsTopicFullySelected(topic) ==
    \A j \in 1..NC : Checked(PrefKey(topic.id, CHANNELS_DATA[j].id))

\* handleSelectAll(topicId) / handleClearAll(topicId), value TRUE / FALSE
handleSetAll(topicId, value) ==
    IF \E k \in 1..NT : TOPICS_DATA[k].id = topicId /\ TOPICS_DATA[k].can_opt_out
    THEN /\ preferences' = SetAllChannels(preferences, topicId, value, 1)
         /\ saveStatus' = "idle"
    ELSE UNCHANGED << preferences, saveStatus >>

\* the Select All button, shown for an opt-outable topic not fully selected
SelectAll(t) ==
    /\ ContentShown
    /\ TOPICS_DATA[t].can_opt_out
    /\ ~IsTopicFullySelected(TOPICS_DATA[t])
    /\ edits < MaxEdits
    /\ edits' = edits + 1
    /\ handleSetAll(TOPICS_DATA[t].id, TRUE)
    /\ UNCHANGED << initialPreferences, isLoadingPage, error, brazeIsInitialized, fetchState, cycles, timers, fetchedData, otherVars >>

\* the Clear All button, shown for an opt-outable topic fully selected
ClearAll(t) ==
    /\ ContentShown
    /\ TOPICS_DATA[t].can_opt_out
    /\ IsTopicFullySelected(TOPICS_DATA[t])
    /\ edits < MaxEdits
    /\ edits' = edits + 1
    /\ handleSetAll(TOPICS_DATA[t].id, FALSE)
    /\ UNCHANGED << initialPreferences, isLoadingPage, error, brazeIsInitialized, fetchState, cycles, timers, fetchedData, otherVars >>

\* a bug: the assignment in the wrong direction, the snapshot takes the edits
handleRevertChanges_Swapped ==
    /\ ContentShown
    /\ HasChanges(preferences, initialPreferences)
    /\ saveStatus # "saving"
    /\ edits < MaxEdits
    /\ edits' = edits + 1
    /\ initialPreferences' = preferences
    /\ saveStatus' = "idle"
    /\ error' = "null"
    /\ UNCHANGED << preferences, isLoadingPage, brazeIsInitialized, fetchState, cycles, timers, fetchedData, otherVars >>

\* handleRevertChanges, behind the Revert Changes button
handleRevertChanges ==
    /\ ContentShown
    /\ HasChanges(preferences, initialPreferences)
    /\ saveStatus # "saving"
    /\ edits < MaxEdits
    /\ edits' = edits + 1
    /\ preferences' = initialPreferences
    /\ saveStatus' = "idle"
    /\ error' = "null"
    /\ UNCHANGED << initialPreferences, isLoadingPage, brazeIsInitialized, fetchState, cycles, timers, fetchedData, otherVars >>

\* -------------------------------------------------------------- save cycle
\* a bug: the Braze groups are updated before the PUT is sent
NewCycle_BrazeFirst(prefs, initial) ==
    [state |-> "inflight",
     currentPreferencesSnapshot |-> prefs,
     originalInitialPreferences |-> initial,
     optOutsPayloadUpmind |-> OptOutsPayloadUpmind(prefs),
     brazeSubscriptionUpdatesSDK |-> BrazeSubscriptionUpdatesSDK(prefs),
     changedPreferencesForBrazeEvent |-> << >>,
     brazeResult |-> "none",
     reported |-> "saving",
     effects |-> << "braze_update", "authority_put" >>]

\* The state of one call of handleSavePreferences: the values it captured and
\* built before the PUT, and what it did, in order, in `effects`.
NewCycle(prefs, initial) ==
    [state |-> "inflight",
     currentPreferencesSnapshot |-> prefs,
     originalInitialPreferences |-> initial,
     optOutsPayloadUpmind |-> OptOutsPayloadUpmind(prefs),
     brazeSubscriptionUpdatesSDK |-> BrazeSubscriptionUpdatesSDK(prefs),
     changedPreferencesForBrazeEvent |-> << >>,
     brazeResult |-> "none",
     reported |-> "saving",
     effects |-> << "authority_put" >>]

\* a bug: the token test placed after the fetch, the PUT goes out without a token
NoTokenCycle_PutSent ==
    [state |-> "notoken",
     currentPreferencesSnapshot |-> << >>,
     originalInitialPreferences |-> << >>,
     optOutsPayloadUpmind |-> << >>,
     brazeSubscriptionUpdatesSDK |-> << >>,
     changedPreferencesForBrazeEvent |-> << >>,
     brazeResult |-> "none",
     reported |-> "error",
     effects |-> << "authority_put" >>]

\* the early return of a call that finds no token: nothing captured, nothing sent
NoTokenCycle ==
    [state |-> "notoken",
     currentPreferencesSnapshot |-> << >>,
     originalInitialPreferences |-> << >>,
     optOutsPayloadUpmind |-> << >>,
     brazeSubscriptionUpdatesSDK |-> << >>,
     changedPreferencesForBrazeEvent |-> << >>,
     brazeResult |-> "none",
     reported |-> "error",
     effects |-> << >>]

\* handleSavePreferences up to its await
handleSavePreferences(token) ==
    /\ Len(cycles) < MaxCycles
    /\ IF ~token
       THEN /\ error' = "Authentication token missing. Please log in again."
            /\ saveStatus' = "error"
            /\ cycles' = Append(cycles, NoTokenCycle)
       ELSE /\ error' = "null"
            /\ saveStatus' = "saving"
            /\ cycles' = Append(cycles, NewCycle(preferences, initialPreferences))
    /\ UNCHANGED << preferences, initialPreferences, isLoadingPage, brazeIsInitialized, fetchState, timers, edits, fetchedData, otherVars >>

\* disabled={!hasChanges || saveStatus === 'saving' || saveStatus === 'success'}
SaveButtonEnabled ==
    /\ HasChanges(preferences, initialPreferences)
    /\ saveStatus # "saving"
    /\ saveStatus # "success"

\* the form's onSubmit, reached through the Save Preferences button
SubmitForm ==
    /\ ContentShown
    /\ SaveButtonEnabled
    /\ \E token \in AccessTokenReads : handleSavePreferences(token)

\* a bug: Step 2 without the test of BrazeService.isInitialized
CallsBrazeUpdate_Always(cycle, isInitialized) ==
    Len(cycle.brazeSubscriptionUpdatesSDK) > 0

\* Step 2: whether the page calls updateUserSubscriptionGroupsViaSDK
CallsBrazeUpdate(cycle, isInitialized) ==
    Len(cycle.brazeSubscriptionUpdatesSDK) > 0 /\ isInitialized

\* Step 3: whether the page calls logCustomEvent('Notification Preference Updated')
CallsLogCustomEvent(changed) == Len(changed) > 0

\* a bug: Step 3 placed after Step 4, the event logged once the snapshot is stored
SuccessEffects_EventLast(cycle, changed, isInitialized) ==
    << "authority_ok" >>
    \o (IF CallsBrazeUpdate(cycle, isInitialized) THEN << "braze_update" >> ELSE << >>)
    \o << "set_status_success", "set_initial" >>
    \o (IF CallsLogCustomEvent(changed) /\ LogCustomEvent(isInitialized)
        THEN << "braze_event" >> ELSE << >>)

\* What the continuation after an ok response does, in the order of the code:
\* Step 2 (Braze groups), Step 3 (Braze event), Step 4 (status and snapshot).
SuccessEffects(cycle, changed, isInitialized) ==
    << "authority_ok" >>
    \o (IF CallsBrazeUpdate(cycle, isInitialized) THEN << "braze_update" >> ELSE << >>)
    \o (IF CallsLogCustomEvent(changed) /\ LogCustomEvent(isInitialized)
        THEN << "braze_event" >> ELSE << >>)
    \o << "set_status_success", "set_initial" >>

\* the status Step 4 reports: setSaveStatus('success'), whatever Step 2 returned
ReportedStatus(brazeResult) == "success"

\* the value updateUserSubscriptionGroupsViaSDK returns to Step 2, "none" if not called
BrazeResult(cycle, isInitialized, userAvailable) ==
    IF CallsBrazeUpdate(cycle, isInitialized)
    THEN IF UpdateUserSubscriptionGroupsViaSDK(isInitialized, userAvailable)
         THEN "true" ELSE "false"
    ELSE "none"

\* the cycle record after the continuation of an ok response
SaveSucceeded(cycle, isInitialized, userAvailable) ==
    [cycle EXCEPT
        !.state = "ok",
        !.changedPreferencesForBrazeEvent =
            ChangedPreferencesForBrazeEvent(cycle.currentPreferencesSnapshot,
                                            cycle.originalInitialPreferences),
        !.brazeResult = BrazeResult(cycle, isInitialized, userAvailable),
        !.reported = ReportedStatus(BrazeResult(cycle, isInitialized, userAvailable)),
        !.effects = cycle.effects \o
            SuccessEffects(cycle,
                ChangedPreferencesForBrazeEvent(cycle.currentPreferencesSnapshot,
                                                cycle.originalInitialPreferences),
                isInitialized)]

\* a bug: Step 4 stores the matrix being edited when the response arrives
SavedSnapshot_Live(cycle) == preferences

\* a bug: Step 4 stores the matrix captured as the old snapshot
SavedSnapshot_Original(cycle) == cycle.originalInitialPreferences

\* the snapshot Step 4 stores: setInitialPreferences({ ...currentPreferencesSnapshot })
SavedSnapshot(cycle) == cycle.currentPreferencesSnapshot

\* the PUT of cycle i returned ok: Steps 2 to 4 run without a further await
AuthorityOk(i) ==
    /\ i \in 1..Len(cycles)
    /\ cycles[i].state = "inflight"
    /\ \E userAvailable \in
            (IF CallsBrazeUpdate(cycles[i], brazeIsInitialized) THEN BOOLEAN ELSE {TRUE}) :
         /\ cycles' = [cycles EXCEPT
                          ![i] = SaveSucceeded(@, brazeIsInitialized, userAvailable)]
         /\ saveStatus' = SaveSucceeded(cycles[i], brazeIsInitialized, userAvailable).reported
    /\ initialPreferences' = SavedSnapshot(cycles[i])
    /\ timers' = timers + 1
    /\ UNCHANGED << preferences, isLoadingPage, error, brazeIsInitialized, fetchState, edits, fetchedData, otherVars >>

\* a bug: the catch block does not report, the cycle stays "saving"
SaveFailed_StaySaving(cycle) ==
    [cycle EXCEPT !.state = "failed",
                  !.effects = cycle.effects \o << "authority_failed" >>]

\* the catch block: the cycle record after a failed PUT
SaveFailed(cycle) ==
    [cycle EXCEPT !.state = "failed",
                  !.reported = "error",
                  !.effects = cycle.effects \o << "authority_failed", "set_status_error" >>]

\* the snapshot after the catch block: it does not touch initialPreferences
SnapshotAfterFailure(cycle, initial) == initial

\* the PUT of cycle i threw (network) or returned a non-ok response
AuthorityFail(i) ==
    /\ i \in 1..Len(cycles)
    /\ cycles[i].state = "inflight"
    /\ cycles' = [cycles EXCEPT ![i] = SaveFailed(@)]
    /\ error' = "Upmind API Error: Failed to save Upmind preferences"
    /\ saveStatus' = "error"
    /\ initialPreferences' = SnapshotAfterFailure(cycles[i], initialPreferences)
    /\ timers' = timers + 1
    /\ UNCHANGED << preferences, isLoadingPage, brazeIsInitialized, fetchState, edits, fetchedData, otherVars >>

\* setTimeout(() => setSaveStatus('idle'), 3000 | 5000) fires
TimerFires ==
    /\ timers > 0
    /\ timers' = timers - 1
    /\ saveStatus' = "idle"
    /\ UNCHANGED << preferences, initialPreferences, isLoadingPage, error, brazeIsInitialized, fetchState, cycles, edits, fetchedData, otherVars >>

Next ==
    \/ \E token \in AccessTokenReads : FetchUserOptOuts(token)
    \/ \E fetchedOptOuts \in FetchedLists : FetchOk(fetchedOptOuts)
    \/ FetchFail
    \/ \E t \in EditedTopics, c \in 1..NC : ToggleCheckbox(t, c)
    \/ \E t \in EditedTopics : SelectAll(t)
    \/ \E t \in EditedTopics : ClearAll(t)
    \/ handleRevertChanges
    \/ SubmitForm
    \/ \E i \in 1..MaxCycles : AuthorityOk(i)
    \/ \E i \in 1..MaxCycles : AuthorityFail(i)
    \/ TimerFires

Spec == Init /\ [][Next]_vars

\* The page with every Authority request eventually answered: the fetch of a
\* PUT settles, so no cycle stays in flight for ever.  The condition is put on
\* the rejecting branch, which is enabled exactly when the resolving one is
\* (the cycle is in flight); a step of either branch ends the flight and
\* satisfies it.
LiveSpec == Spec /\ \A i \in 1..MaxCycles : WF_vars(AuthorityFail(i))

\* ---------------------------------------- dashboard: the opt-in popup
\* updateBellIconDotState: the dot shows unless the stored status is 'subscribed'
BellIconDot(optInStatus) == optInStatus # "subscribed"

\* checkAndShowNotificationPopup(false), run by the effect of the dashboard
checkAndShowNotificationPopup ==
    /\ dashboard' =
          [dashboard EXCEPT
              !.showNotificationOptIn =
                  /\ dashboard.optInStatus # "subscribed"
                  /\ ~dashboard.dismissedTimestamp,
              !.hasUnreadNotification = BellIconDot(dashboard.optInStatus)]
    /\ dashboard' # dashboard
    /\ UNCHANGED << pageVars, brazeIsInitialized, upmindToBrazeMap, registerForm, authProvider >>

\* onBellClick: setShowNotificationOptIn(!showNotificationOptIn)
BellClick ==
    /\ dashboard' = [dashboard EXCEPT !.showNotificationOptIn = ~@]
    /\ UNCHANGED << pageVars, brazeIsInitialized, upmindToBrazeMap, registerForm, authProvider >>

\* the object brazeSDKUpdates of the bulk opt-in
BulkOptInUpdates ==
    << << BRAZE_SUBSCRIPTION_GROUPS.MARKETING_EMAIL, "subscribed" >>,
       << BRAZE_SUBSCRIPTION_GROUPS.MARKETING_IN_APP, "subscribed" >>,
       << BRAZE_SUBSCRIPTION_GROUPS.SERVICE_UPDATES_EMAIL, "subscribed" >>,
       << BRAZE_SUBSCRIPTION_GROUPS.SERVICE_UPDATES_IN_APP, "subscribed" >> >>

\* the event logged before anything else: if (BrazeService.isInitialized && actorId)
FirstEvent(name, isInitialized, actorId) ==
    IF isInitialized /\ actorId /\ LogCustomEvent(isInitialized) THEN << name >> ELSE << >>

\* One call of handleNotificationOptInResponse: what it sends and what it did, in order.
NewResponse(subscribed, token, isInitialized, actorId) ==
    IF subscribed
    THEN [subscribed |-> TRUE,
          state |-> IF token THEN "inflight" ELSE "done",
          opt_outs |-> << >>,
          brazeSDKUpdates |-> << >>,
          effects |-> FirstEvent("notification_subscribed", isInitialized, actorId)
                      \o (IF token THEN << "authority_put" >> ELSE << >>)]
    ELSE [subscribed |-> FALSE,
          state |-> "done",
          opt_outs |-> << >>,
          brazeSDKUpdates |-> << >>,
          effects |-> FirstEvent("notification_opt_in_dismissed", isInitialized, actorId)]

\* handleNotificationOptInResponse(subscribed) up to its await, or to its end
\* when it sends nothing; token and actorId are what localStorage holds
handleNotificationOptInResponse(subscribed, token, actorId) ==
    /\ dashboard.showNotificationOptIn
    /\ Len(dashboard.responses) < MaxResponses
    /\ dashboard' =
          [dashboard EXCEPT
              !.optInStatus = IF subscribed THEN "subscribed" ELSE @,
              !.dismissedTimestamp = IF subscribed THEN @ ELSE TRUE,
              !.responses = Append(@, NewResponse(subscribed, token,
                                                  brazeIsInitialized, actorId)),
              !.showNotificationOptIn = IF subscribed /\ token THEN @ ELSE FALSE,
              !.hasUnreadNotification =
                  IF subscribed /\ token THEN @
                  ELSE BellIconDot(IF subscribed THEN "subscribed"
                                   ELSE dashboard.optInStatus)]
    /\ UNCHANGED << pageVars, brazeIsInitialized, upmindToBrazeMap, registerForm, authProvider >>

\* a bug: the Braze block placed after the if / else, run for a refused PUT too
OptInRefusedEffects_BrazeAnyway(isInitialized) ==
    << "authority_refused" >>
    \o (IF isInitialized THEN << "braze_update", "braze_event" >> ELSE << >>)

\* what the continuation does after a response that is not ok: console.error only
OptInRefusedEffects(isInitialized) == << "authority_refused" >>

\* what the continuation does after an ok response: the four groups and the event
OptInAcceptedEffects(isInitialized) ==
    << "authority_ok" >>
    \o (IF isInitialized
        THEN << "braze_update" >>
             \o (IF LogCustomEvent(isInitialized) THEN << "braze_event" >> ELSE << >>)
        ELSE << >>)

\* the end of every path of the handler: setShowNotificationOptIn(false); updateBellIconDotState()
ResponseDone(k, effects, updates) ==
    dashboard' =
        [dashboard EXCEPT
            !.responses[k] = [@ EXCEPT !.state = "done",
                                       !.effects = @ \o effects,
                                       !.brazeSDKUpdates = updates],
            !.showNotificationOptIn = FALSE,
            !.hasUnreadNotification = BellIconDot(dashboard.optInStatus)]

\* the PUT of response k returned ok
OptInPutOk(k) ==
    /\ k \in 1..Len(dashboard.responses)
    /\ dashboard.responses[k].state = "inflight"
    /\ ResponseDone(k, OptInAcceptedEffects(brazeIsInitialized),
                    IF brazeIsInitialized THEN BulkOptInUpdates ELSE << >>)
    /\ UNCHANGED << pageVars, brazeIsInitialized, upmindToBrazeMap, registerForm, authProvider >>

\* the PUT of response k returned a response that is not ok
OptInPutRefused(k) ==
    /\ k \in 1..Len(dashboard.responses)
    /\ dashboard.responses[k].state = "inflight"
    /\ ResponseDone(k, OptInRefusedEffects(brazeIsInitialized), << >>)
    /\ UNCHANGED << pageVars, brazeIsInitialized, upmindToBrazeMap, registerForm, authProvider >>

\* the fetch of response k threw: the catch block
OptInPutThrows(k) ==
    /\ k \in 1..Len(dashboard.responses)
    /\ dashboard.responses[k].state = "inflight"
    /\ ResponseDone(k, << "authority_threw" >>, << >>)
    /\ UNCHANGED << pageVars, brazeIsInitialized, upmindToBrazeMap, registerForm, authProvider >>

DashNext ==
    \/ checkAndShowNotificationPopup
    \/ BellClick
    \/ \E subscribed \in BOOLEAN, token \in AccessTokenReads, actorId \in BOOLEAN :
          handleNotificationOptInResponse(subscribed, token, actorId)
    \/ \E k \in 1..MaxResponses : OptInPutOk(k)
    \/ \E k \in 1..MaxResponses : OptInPutRefused(k)
    \/ \E k \in 1..MaxResponses : OptInPutThrows(k)

\* the dashboard of a signed-in user; the preferences page is not mounted
DashSpec == Init /\ [][DashNext]_vars

\* ------------------------------------------- RegisterForm: handleSubmit
\* the local copies of the channel and topic tables
UPMIND_CHANNELS_DATA_REG ==
    << [id |-> <<"3", "d">>, name |-> "Email"],
       [id |-> <<"d", "1">>, name |-> "In-App"] >>

UPMIND_TOPICS_DATA_REG ==
    << [id |-> <<"3", "d">>, name |-> "System", can_opt_out |-> FALSE],
       [id |-> <<"2", "6">>, name |-> "Billing", can_opt_out |-> TRUE],
       [id |-> <<"d", "1">>, name |-> "Marketing", can_opt_out |-> TRUE],
       [id |-> <<"e", "5">>, name |-> "Support", can_opt_out |-> TRUE],
       [id |-> <<"3", "1">>, name |-> "Service Updates", can_opt_out |-> TRUE] >>

NTReg == Len(UPMIND_TOPICS_DATA_REG)
NCReg == Len(UPMIND_CHANNELS_DATA_REG)
NRel == Len(RELEVANT_UPMIND_TOPICS_FOR_BRAZE_SYNC)

\* the nested forEach of the form: topics outside, channels inside
RegTopic(i) == UPMIND_TOPICS_DATA_REG[((i - 1) \div NCReg) + 1]
RegChannel(i) == UPMIND_CHANNELS_DATA_REG[((i - 1) % NCReg) + 1]
RegRelevantTopicId(i) == RELEVANT_UPMIND_TOPICS_FOR_BRAZE_SYNC[((i - 1) \div NCReg) + 1]

\* fetchedOptOuts.some(o => o.topic_id === topic.id && o.channel_id === channel.id)
RegSomeOptOut(fetchedOptOuts, topicId, channelId) ==
    \E k \in 1..Len(fetchedOptOuts) :
        /\ fetchedOptOuts[k].topic_id = topicId
        /\ fetchedOptOuts[k].channel_id = channelId

\* Step 3, response ok: initialUpmindPrefs over all topics and channels
RECURSIVE BuildFetchedUpmindPrefs(_, _, _)
BuildFetchedUpmindPrefs(i, fetchedOptOuts, initialUpmindPrefs) ==
    IF i > NTReg * NCReg THEN initialUpmindPrefs
    ELSE BuildFetchedUpmindPrefs(i + 1, fetchedOptOuts,
            ObjSet(initialUpmindPrefs, PrefKey(RegTopic(i).id, RegChannel(i).id),
                   (~RegTopic(i).can_opt_out)
                   \/ ~RegSomeOptOut(fetchedOptOuts, RegTopic(i).id, RegChannel(i).id)))

FetchedUpmindPrefs(fetchedOptOuts) == BuildFetchedUpmindPrefs(1, fetchedOptOuts, << >>)

\* the fallback: every relevant topic opted in on every channel
RECURSIVE BuildDefaultUpmindPrefs(_, _)
BuildDefaultUpmindPrefs(i, initialUpmindPrefs) ==
    IF i > NRel * NCReg THEN initialUpmindPrefs
    ELSE BuildDefaultUpmindPrefs(i + 1,
            ObjSet(initialUpmindPrefs, PrefKey(RegRelevantTopicId(i), RegChannel(i).id), TRUE))

DefaultUpmindPrefs == BuildDefaultUpmindPrefs(1, << >>)

\* a bug: the two literals exchanged
RegSubscriptionState_Inverted(isOptedInUpmind) ==
    IF Truthy(isOptedInUpmind) THEN "unsubscribed" ELSE "subscribed"

\* isOptedInUpmind ? "subscribed" : "unsubscribed"
RegSubscriptionState(isOptedInUpmind) ==
    IF Truthy(isOptedInUpmind) THEN "subscribed" ELSE "unsubscribed"

\* Step 4, the body of the inner forEach
RegStateForCell(upmindTopicId, upmindChannel, initialUpmindPrefs, states) ==
    IF BrazeGroupId(upmindTopicId, upmindChannel.id) # Undefined
    THEN ObjSet(states, BrazeGroupId(upmindTopicId, upmindChannel.id)[1],
                RegSubscriptionState(ObjGet(initialUpmindPrefs,
                                            PrefKey(upmindTopicId, upmindChannel.id))))
    ELSE states

RECURSIVE BuildRegStates(_, _, _)
BuildRegStates(i, initialUpmindPrefs, states) ==
    IF i > NRel * NCReg THEN states
    ELSE BuildRegStates(i + 1, initialUpmindPrefs,
            RegStateForCell(RegRelevantTopicId(i), RegChannel(i), initialUpmindPrefs, states))

\* Step 4: brazeSubscriptionStatesForSDK
BrazeSubscriptionStatesForSDK(initialUpmindPrefs) ==
    BuildRegStates(1, initialUpmindPrefs, << >>)

\* The cells a new user may be opted out of, and the lists made of them: every
\* combination of the four mapped cells, with or without an unmapped one.
RegOptOutCells ==
    << [topic_id |-> MARKETING, channel_id |-> EMAIL],
       [topic_id |-> MARKETING, channel_id |-> IN_APP],
       [topic_id |-> SERVICE_UPDATES, channel_id |-> EMAIL],
       [topic_id |-> SERVICE_UPDATES, channel_id |-> IN_APP],
       [topic_id |-> SUPPORT, channel_id |-> IN_APP] >>

RECURSIVE RegListOf(_, _)
RegListOf(chosen, i) ==
    IF i > Len(RegOptOutCells) THEN << >>
    ELSE (IF i \in chosen THEN << RegOptOutCells[i] >> ELSE << >>)
         \o RegListOf(chosen, i + 1)

RegFetchedLists == { RegListOf(chosen, 1) : chosen \in SUBSET (1..Len(RegOptOutCells)) }

NewSubmit ==
    [pc |-> "register", accepted |-> FALSE, outcome |-> "pending",
     fetchedOptOuts |-> Undefined, initialUpmindPrefs |-> << >>,
     brazeSubscriptionStatesForSDK |-> << >>, changeUserCalled |-> FALSE,
     onSuccess |-> 0, setError |-> FALSE]

CurrentSubmit == Len(registerForm.submits)

\* handleSubmit up to its first await; the button is disabled while loading
handleSubmit(passwordLongEnough) ==
    /\ ~registerForm.isLoading
    /\ Len(registerForm.submits) < MaxSubmits
    /\ registerForm' =
          IF passwordLongEnough
          THEN [error |-> FALSE, successMsg |-> FALSE, isLoading |-> TRUE,
                submits |-> Append(registerForm.submits, NewSubmit)]
          ELSE [error |-> TRUE, successMsg |-> FALSE, isLoading |-> FALSE,
                submits |-> Append(registerForm.submits,
                               [NewSubmit EXCEPT !.pc = "done", !.outcome = "password",
                                                 !.setError = TRUE])]
    /\ UNCHANGED << pageVars, brazeIsInitialized, upmindToBrazeMap, dashboard, authProvider >>

\* setError(...) then the end of the call: the parse failure, the refusal and
\* the outer catch with its finally
SubmitFailed(outcome) ==
    registerForm' =
        [registerForm EXCEPT
            !.error = TRUE, !.isLoading = FALSE,
            !.submits[CurrentSubmit] = [@ EXCEPT !.pc = "done", !.outcome = outcome,
                                                 !.setError = TRUE]]

\* Steps 4 and 5 on the preferences found, then finally
SubmitCompleted(outcome, fetchedOptOuts, initialUpmindPrefs, changeUserSuccess) ==
    registerForm' =
        [registerForm EXCEPT
            !.successMsg = TRUE, !.isLoading = FALSE,
            !.submits[CurrentSubmit] =
                [@ EXCEPT !.pc = "done",
                          !.outcome = IF ~brazeIsInitialized THEN outcome \o "_no_sdk"
                                      ELSE IF changeUserSuccess THEN outcome
                                      ELSE outcome \o "_sync_issue",
                          !.fetchedOptOuts = fetchedOptOuts,
                          !.initialUpmindPrefs = initialUpmindPrefs,
                          !.brazeSubscriptionStatesForSDK =
                              BrazeSubscriptionStatesForSDK(initialUpmindPrefs),
                          !.changeUserCalled = brazeIsInitialized,
                          !.onSuccess = @ + 1]]

\* Step 1: the answer of POST /auth/register
RegisterResponds(answer) ==
    /\ registerForm.isLoading
    /\ registerForm.submits[CurrentSubmit].pc = "register"
    /\ IF answer = "accepted"
       THEN registerForm' =
               [registerForm EXCEPT !.submits[CurrentSubmit] =
                                        [@ EXCEPT !.pc = "login", !.accepted = TRUE]]
       ELSE SubmitFailed(answer)
    /\ UNCHANGED << pageVars, brazeIsInitialized, upmindToBrazeMap, dashboard, authProvider >>

\* Step 2: the answer of the temporary login, awaited outside any inner try
LoginResponds(answer, changeUserSuccess) ==
    /\ registerForm.isLoading
    /\ registerForm.submits[CurrentSubmit].pc = "login"
    /\ CASE answer = "ok" ->
               registerForm' =
                   [registerForm EXCEPT !.submits[CurrentSubmit] = [@ EXCEPT !.pc = "optouts"]]
         [] answer = "not_ok" ->
               SubmitCompleted("login_refused", Undefined, DefaultUpmindPrefs,
                               changeUserSuccess)
         [] OTHER -> SubmitFailed("login_threw")
    /\ UNCHANGED << pageVars, brazeIsInitialized, upmindToBrazeMap, dashboard, authProvider >>

\* Step 3: the answer of GET /api/notifications/opt-outs
OptOutsResponds(answer, fetchedOptOuts, changeUserSuccess) ==
    /\ registerForm.isLoading
    /\ registerForm.submits[CurrentSubmit].pc = "optouts"
    /\ CASE answer = "ok" ->
               SubmitCompleted("fetched", Some(fetchedOptOuts),
                               FetchedUpmindPrefs(fetchedOptOuts), changeUserSuccess)
         [] answer = "not_ok" ->
               SubmitCompleted("optouts_refused", Undefined, DefaultUpmindPrefs,
                               changeUserSuccess)
         [] OTHER -> SubmitFailed("optouts_threw")
    /\ UNCHANGED << pageVars, brazeIsInitialized, upmindToBrazeMap, dashboard, authProvider >>

RegNext ==
    \/ \E passwordLongEnough \in BOOLEAN : handleSubmit(passwordLongEnough)
    \/ \E answer \in { "accepted", "refused", "unparsable", "register_threw" } :
          RegisterResponds(answer)
    \/ \E answer \in { "ok", "not_ok", "threw" }, changeUserSuccess \in BOOLEAN :
          LoginResponds(answer, changeUserSuccess)
    \/ \E answer \in { "ok", "not_ok", "threw" }, fetchedOptOuts \in RegFetchedLists,
          changeUserSuccess \in BOOLEAN :
          OptOutsResponds(answer, fetchedOptOuts, changeUserSuccess)

\* the registration form alone
RegSpec == Init /\ [][RegNext]_vars

\* ----------------------------- AuthProvider and BrazeClientInitializer
\* what AuthProvider renders from; a change re-renders it, hands a new
\* onInitialized to BrazeClientInitializer and so runs that effect again
Rendered(a) == << a.isAuthenticated, a.isLoadingAuth, a.brazeInitialized >>

Rerender(a) ==
    IF Rendered(a) # Rendered(authProvider) THEN [a EXCEPT !.initBraze = "pending"] ELSE a

\* AuthProvider mounts in a browser whose localStorage holds a token or not
AuthMount(token) ==
    /\ ~authProvider.mounted
    /\ authProvider' = [authProvider EXCEPT !.mounted = TRUE, !.access_token = token,
                                            !.effect = "pending", !.initBraze = "pending"]
    /\ UNCHANGED << pageVars, brazeIsInitialized, upmindToBrazeMap, dashboard, registerForm >>

\* the body of the effect on [brazeInitialized]
AuthEffect ==
    /\ authProvider.mounted
    /\ authProvider.effect = "pending"
    /\ authProvider' =
          Rerender([authProvider EXCEPT
              !.effect = "done",
              !.isAuthenticated = authProvider.access_token,
              !.isLoadingAuth = IF authProvider.brazeInitialized THEN FALSE ELSE @,
              !.tokenAtLoad = IF authProvider.brazeInitialized /\ authProvider.isLoadingAuth
                              THEN Some(authProvider.access_token) ELSE @])
    /\ UNCHANGED << pageVars, brazeIsInitialized, upmindToBrazeMap, dashboard, registerForm >>

\* BrazeService.initialize: returns at once when initialized or when the key
\* or the endpoint is missing; catches what braze.initialize throws
Initialize(isInitialized, outcome) ==
    IF isInitialized THEN TRUE ELSE outcome = "ok"

\* a bug: onInitialized called only when the SDK came up
OnInitializedCalled_OnlyOnSuccess(isInitializedAfter) == isInitializedAfter

\* initBraze calls onInitialized after the awaited initialize() on both
\* branches; initialize() never rejects
OnInitializedCalled(isInitializedAfter) == TRUE

\* initBraze of BrazeClientInitializer, with onInitialized = () => setBrazeInitialized(true)
InitBraze(outcome) ==
    /\ authProvider.mounted
    /\ authProvider.initBraze = "pending"
    /\ authProvider.effect = "done"
    /\ brazeIsInitialized' = Initialize(brazeIsInitialized, outcome)
    /\ authProvider' =
          IF OnInitializedCalled(Initialize(brazeIsInitialized, outcome))
             /\ ~authProvider.brazeInitialized
          THEN [authProvider EXCEPT !.initBraze = "pending", !.brazeInitialized = TRUE,
                                    !.effect = "pending"]
          ELSE [authProvider EXCEPT !.initBraze = "done"]
    /\ UNCHANGED << pageVars, upmindToBrazeMap, dashboard, registerForm >>

\* login(accessToken), called by a child, rendered only when loading is over
login ==
    /\ authProvider.mounted
    /\ ~authProvider.isLoadingAuth
    /\ authProvider.calls < MaxAuthCalls
    /\ authProvider' =
          Rerender([authProvider EXCEPT
              !.access_token = TRUE,
              !.isAuthenticated = TRUE,
              !.popupTimer = @ \/ (/\ dashboard.optInStatus # "subscribed"
                                   /\ ~dashboard.dismissedTimestamp),
              !.calls = @ + 1])
    /\ UNCHANGED << pageVars, brazeIsInitialized, upmindToBrazeMap, dashboard, registerForm >>

\* logout()
logout ==
    /\ authProvider.mounted
    /\ ~authProvider.isLoadingAuth
    /\ authProvider.calls < MaxAuthCalls
    /\ authProvider' =
          Rerender([authProvider EXCEPT
              !.access_token = FALSE,
              !.isAuthenticated = FALSE,
              !.calls = @ + 1])
    /\ UNCHANGED << pageVars, brazeIsInitialized, upmindToBrazeMap, dashboard, registerForm >>

\* the timer of login(): setShowNotificationOptIn(true)
PopupTimerFires ==
    /\ authProvider.popupTimer
    /\ authProvider' = [authProvider EXCEPT !.popupTimer = FALSE]
    /\ dashboard' = [dashboard EXCEPT !.showNotificationOptIn = TRUE]
    /\ UNCHANGED << pageVars, brazeIsInitialized, upmindToBrazeMap, registerForm >>

AuthNext ==
    \/ \E token \in AccessTokenReads : AuthMount(token)
    \/ AuthEffect
    \/ \E outcome \in { "ok", "missing_key", "threw" } : InitBraze(outcome)
    \/ login
    \/ logout
    \/ PopupTimerFires

AuthSpec == Init /\ [][AuthNext]_vars

\* React runs a scheduled effect, and initialize(), an async function without
\* an await of its own, always settles: both steps happen once they are due.
AuthLiveSpec ==
    /\ AuthSpec
    /\ WF_vars(AuthEffect)
    /\ WF_vars(\E outcome \in { "ok", "missing_key", "threw" } : InitBraze(outcome))

\* ------------------------------------------- the save computed on any input
\* The cells of opt-outable topics, as <<topic id, channel id>>
OptOutCells ==
    { << TOPICS_DATA[t].id, CHANNELS_DATA[c].id >> :
        t \in { k \in 1..NT : TOPICS_DATA[k].can_opt_out }, c \in 1..NC }

\* The matrix a load builds (fetchUserOptOuts key order) whose opted-out cells are S;
\* edits keep the key order, so these are the matrices the page can hold.
MatrixOf(S) ==
    [i \in 1..(NT * NC) |->
        << PrefKey(FetchTopic(i).id, FetchChannel(i).id),
           << FetchTopic(i).id, FetchChannel(i).id >> \notin S >>]

SymDiff(A, B) == (A \ B) \cup (B \ A)

\* A loaded page holding any desired matrix and any snapshot at most MaxDiff
\* cells away, on which handleSavePreferences is called once.  The list the
\* snapshot was loaded from is the opt-out list a save of it stores.
DiffInit ==
    /\ \E D \in SUBSET OptOutCells, S \in SUBSET OptOutCells :
          /\ Cardinality(SymDiff(D, S)) <= MaxDiff
          /\ preferences = MatrixOf(D)
          /\ initialPreferences = MatrixOf(S)
          /\ fetchedData = OptOutsPayloadUpmind(MatrixOf(S))
    /\ isLoadingPage = FALSE
    /\ error = "null"
    /\ saveStatus = "idle"
    /\ brazeIsInitialized \in BOOLEAN
    /\ OthersIdle
    /\ fetchState = "loaded"
    /\ cycles = << >>
    /\ timers = 0
    /\ edits = 0

CallSave ==
    /\ cycles = << >>
    /\ \E token \in AccessTokenReads : handleSavePreferences(token)

DiffNext ==
    \/ CallSave
    \/ AuthorityOk(1)
    \/ AuthorityFail(1)

DiffSpec == DiffInit /\ [][DiffNext]_vars

\* ------------------------------------------------ the save called again
\* the opt-outable cells, as <<topic id, channel id>>, that a matrix holds false
OptedOut(m) == { x \in OptOutCells : ObjGet(m, PrefKey(x[1], x[2])) = Some(FALSE) }

\* A page loaded from one of the lists, holding a desired matrix at most
\* MaxDiff cells away from the snapshot and never edited again.
RepeatInit ==
    /\ \E fetchedOptOuts \in FetchedLists, D \in SUBSET OptOutCells :
          /\ Cardinality(SymDiff(D, OptedOut(CurrentPrefs(fetchedOptOuts)))) <= MaxDiff
          /\ preferences = MatrixOf(D)
          /\ initialPreferences = CurrentPrefs(fetchedOptOuts)
          /\ fetchedData = fetchedOptOuts
    /\ isLoadingPage = FALSE
    /\ error = "null"
    /\ saveStatus = "idle"
    /\ brazeIsInitialized \in BOOLEAN
    /\ OthersIdle
    /\ fetchState = "loaded"
    /\ cycles = << >>
    /\ timers = 0
    /\ edits = 0

\* handleSavePreferences called again once the previous call has returned
CallSaveAgain ==
    /\ \A i \in 1..Len(cycles) : cycles[i].state # "inflight"
    /\ \E token \in AccessTokenReads : handleSavePreferences(token)

RepeatNext ==
    \/ CallSaveAgain
    \/ \E i \in 1..MaxCycles : AuthorityOk(i)
    \/ \E i \in 1..MaxCycles : AuthorityFail(i)

RepeatSpec == RepeatInit /\ [][RepeatNext]_vars

\* ------------------------------------- the save computed on any matrix
\* every cell of the grid, as <<topic id, channel id>>
AllCells ==
    { << TOPICS_DATA[t].id, CHANNELS_DATA[c].id >> : t \in 1..NT, c \in 1..NC }

\* handleSavePreferences called once on any Preferences object over the keys
\* of the grid, the keys of non-opt-outable topics included, with the
\* snapshot of a user who has no opt-out.
RawInit ==
    /\ \E D \in SUBSET AllCells : preferences = MatrixOf(D)
    /\ initialPreferences = MatrixOf({ })
    /\ fetchedData = << >>
    /\ isLoadingPage = FALSE
    /\ error = "null"
    /\ saveStatus = "idle"
    /\ brazeIsInitialized \in BOOLEAN
    /\ OthersIdle
    /\ fetchState = "loaded"
    /\ cycles = << >>
    /\ timers = 0
    /\ edits = 0

RawSpec == RawInit /\ [][DiffNext]_vars

\* ------------------------------------------------ the load on any list
\* The records a response can hold: every topic id and every channel id of the
\* tables, and one id of each kind that the tables do not have.
FetchedRecords ==
    { [topic_id |-> t, channel_id |-> c] :
        t \in { TOPICS_DATA[k].id : k \in 1..NT } \cup { <<"f", "f">> },
        c \in { CHANNELS_DATA[k].id : k \in 1..NC } \cup { <<"0", "0">> } }

\* the lists of at most MaxFetched records
AnyFetchedLists == UNION { [1..n -> FetchedRecords] : n \in 0..MaxFetched }

\* the page mounts and loads, whatever list the Authority returns
LoadNext ==
    \/ \E token \in AccessTokenReads : FetchUserOptOuts(token)
    \/ \E fetchedOptOuts \in AnyFetchedLists : FetchOk(fetchedOptOuts)
    \/ FetchFail

LoadSpec == Init /\ [][LoadNext]_vars

\* ------------------------------------ the save under a defective table
\* UPMIND_TO_BRAZE_MAP with one entry edited to a group that another key has:
\* Service Updates / Email sent to the Marketing Email group (two topics
\* collide), or Marketing / In-App sent to it (two channels collide).
DefectiveMaps ==
    { [UPMIND_TO_BRAZE_MAP EXCEPT
          ![SERVICE_UPDATES][EMAIL] = BRAZE_SUBSCRIPTION_GROUPS.MARKETING_EMAIL],
      [UPMIND_TO_BRAZE_MAP EXCEPT
          ![MARKETING][IN_APP] = BRAZE_SUBSCRIPTION_GROUPS.MARKETING_EMAIL] }

\* handleSavePreferences called once on any desired matrix, in a build whose
\* mapping table has such a defect
DefectInit ==
    /\ \E D \in SUBSET OptOutCells : preferences = MatrixOf(D)
    /\ initialPreferences = MatrixOf({ })
    /\ fetchedData = << >>
    /\ isLoadingPage = FALSE
    /\ error = "null"
    /\ saveStatus = "idle"
    /\ brazeIsInitialized \in BOOLEAN
    /\ fetchState = "loaded"
    /\ cycles = << >>
    /\ timers = 0
    /\ edits = 0
    /\ upmindToBrazeMap \in DefectiveMaps
    /\ dashboard = DashboardIdle
    /\ registerForm = RegisterFormIdle
    /\ authProvider = AuthProviderIdle

DefectSpec == DefectInit /\ [][DiffNext]_vars

\* ------------------------------------------- the load followed by a save
\* handleSavePreferences called on the matrix as loaded, before any edit
SaveUnedited ==
    /\ fetchState = "loaded"
    /\ CallSave

RoundTripNext ==
    \/ LoadNext
    \/ SaveUnedited
    \/ AuthorityOk(1)
    \/ AuthorityFail(1)

RoundTripSpec == Init /\ [][RoundTripNext]_vars

\* ------------------------------------------------------------------ claims
CycleIds == 1..Len(cycles)
InFlight == { i \in CycleIds : cycles[i].state = "inflight" }
\* the positions of an effect in the record of what a cycle did
Positions(effects, e) == { k \in 1..Len(effects) : effects[k] = e }
Before(effects, a, b) ==
    \A kb \in Positions(effects, b) : \E ka \in Positions(effects, a) : ka < kb

\* C1: in every step, a cycle whose PUT fails leaves initialPreferences as it
\* was, a cycle whose PUT succeeds sets it to the matrix it submitted whatever
\* the Braze outcome, starting a cycle does not touch it, and nothing but a
\* successful PUT (or the load) changes it.
C1_SnapshotIffAuthorityOk ==
    [][ /\ \A i \in CycleIds :
             /\ (cycles[i].state = "inflight" /\ cycles'[i].state = "failed")
                    => initialPreferences' = initialPreferences
             /\ (cycles[i].state = "inflight" /\ cycles'[i].state = "ok")
                    => initialPreferences' = cycles[i].currentPreferencesSnapshot
        /\ Len(cycles') > Len(cycles) => initialPreferences' = initialPreferences
        /\ initialPreferences' # initialPreferences =>
             \/ fetchState = "inflight"
             \/ \E i \in CycleIds :
                    cycles[i].state = "inflight" /\ cycles'[i].state = "ok" ]_vars

\* C1 witness: one cycle failed, another succeeded although Braze reported
\* failure, and the snapshot is the matrix the latter submitted, not its old one.
C1_Witness ==
    \E i, j \in CycleIds :
        /\ cycles[j].state = "failed"
        /\ cycles[i].state = "ok"
        /\ cycles[i].brazeResult = "false"
        /\ initialPreferences = cycles[i].currentPreferencesSnapshot
        /\ initialPreferences # cycles[i].originalInitialPreferences

\* C2: a cycle whose PUT succeeded and whose Braze update returned failure has
\* stored the snapshot and reports a result that is neither the plain success
\* nor the blocking error.
C2_PartialSuccessReported ==
    \A i \in CycleIds :
        (cycles[i].state = "ok" /\ cycles[i].brazeResult = "false") =>
            /\ Includes(cycles[i].effects, "set_initial")
            /\ cycles[i].reported \notin { "success", "error" }

\* C3: at most one save cycle has its PUT in flight.
C3_AtMostOneInFlight == Cardinality(InFlight) <= 1

\* C4: in every cycle the Braze update comes after the ok response of the PUT,
\* which comes after the PUT; a cycle in flight or failed has made no Braze update.
C4_AuthorityFirst ==
    \A i \in CycleIds :
        /\ Before(cycles[i].effects, "authority_ok", "braze_update")
        /\ Before(cycles[i].effects, "authority_put", "authority_ok")
        /\ cycles[i].state \in { "inflight", "failed", "notoken" } =>
              Positions(cycles[i].effects, "braze_update") = { }

\* C4 witness: a cycle that updated Braze after its PUT succeeded, and a failed one.
C4_Witness ==
    \E i, j \in CycleIds :
        /\ cycles[i].state = "ok"
        /\ Positions(cycles[i].effects, "braze_update") # { }
        /\ cycles[j].state = "failed"

\* C5 as stated: in a cycle whose PUT succeeded the snapshot is stored before
\* the Braze update and before the Braze event.
C5_SnapshotBeforeEngagement ==
    \A i \in CycleIds :
        cycles[i].state = "ok" =>
            /\ Before(cycles[i].effects, "set_initial", "braze_update")
            /\ Before(cycles[i].effects, "set_initial", "braze_event")

\* C5 amended: in a cycle whose PUT succeeded the snapshot is stored exactly
\* once, as the last thing the cycle does, after the Braze update and the Braze
\* event if any; no state has a cycle with an ok response and no stored snapshot.
C5_SnapshotStoredLast ==
    \A i \in CycleIds :
        Includes(cycles[i].effects, "authority_ok") =>
            /\ cycles[i].state = "ok"
            /\ Positions(cycles[i].effects, "set_initial") = { Len(cycles[i].effects) }
            /\ Before(cycles[i].effects, "authority_ok", "set_initial")
            /\ \A k \in Positions(cycles[i].effects, "braze_update")
                        \cup Positions(cycles[i].effects, "braze_event") :
                   k < Len(cycles[i].effects)

\* C5 witness: a cycle that updated Braze, logged the event and then stored the snapshot.
C5_Witness ==
    \E i \in CycleIds :
        /\ cycles[i].state = "ok"
        /\ Includes(cycles[i].effects, "braze_update")
        /\ Includes(cycles[i].effects, "braze_event")
        /\ initialPreferences = cycles[i].currentPreferencesSnapshot

\* the cells of Topics x Channels, as <<topic, channel>> records of the tables
Cells == { << TOPICS_DATA[t], CHANNELS_DATA[c] >> : t \in 1..NT, c \in 1..NC }
CellKey(cell) == PrefKey(cell[1].id, cell[2].id)
\* the cycles that captured a desired matrix and built payloads
Built == { i \in CycleIds : cycles[i].state # "notoken" }
NoDuplicates(seq) == Cardinality(Range(seq)) = Len(seq)

\* the opt-out set of a matrix: the opt-outable cells whose value is false
OptOutSet(m) ==
    { [topic_id |-> cell[1].id, channel_id |-> cell[2].id] :
        cell \in { x \in Cells : x[1].can_opt_out /\ ObjGet(m, CellKey(x)) = Some(FALSE) } }

\* the cells of relevant topics for which the mapping table has a group
MappedCells ==
    { x \in Cells : /\ Includes(RELEVANT_UPMIND_TOPICS_FOR_BRAZE_SYNC, x[1].id)
                    /\ BrazeGroupId(x[1].id, x[2].id) # Undefined }

\* the group states of a matrix, as <<group id, state>>
GroupStates(m) ==
    { << BrazeGroupId(cell[1].id, cell[2].id)[1],
         IF ObjGet(m, CellKey(cell)) = Some(TRUE) THEN "subscribed" ELSE "unsubscribed" >> :
        cell \in MappedCells }

\* one record per cell whose value differs between snapshot and desired
ChangeSet(snapshot, desired) ==
    { [topic_id |-> cell[1].id, channel_id |-> cell[2].id,
       old_state_opted_in |-> ObjGet(snapshot, CellKey(cell)),
       new_state_opted_in |-> ObjGet(desired, CellKey(cell))] :
        cell \in { x \in Cells : ObjGet(snapshot, CellKey(x)) # ObjGet(desired, CellKey(x)) } }

\* C6 as stated: a save computed with desired = snapshot has an empty opt-out
\* payload, an empty Braze payload and no change records.
C6_EmptyPayloadsOnNoChange ==
    \A i \in Built :
        cycles[i].currentPreferencesSnapshot = cycles[i].originalInitialPreferences =>
            /\ cycles[i].optOutsPayloadUpmind = << >>
            /\ cycles[i].brazeSubscriptionUpdatesSDK = << >>
            /\ cycles[i].changedPreferencesForBrazeEvent = << >>

\* C6 amended: a save computed with desired = snapshot = m has no change
\* records; its opt-out payload is the whole opt-out set of m (empty only when
\* m opts out of nothing) and its Braze payload has one entry per mapped cell.
C6_NoChangeRecordsOnNoChange ==
    \A i \in Built :
        cycles[i].currentPreferencesSnapshot = cycles[i].originalInitialPreferences =>
            /\ cycles[i].changedPreferencesForBrazeEvent = << >>
            /\ Len(cycles[i].optOutsPayloadUpmind)
                 = Cardinality(OptOutSet(cycles[i].originalInitialPreferences))
            /\ Len(cycles[i].brazeSubscriptionUpdatesSDK) = Cardinality(MappedCells)

\* C6 witness: a completed save with desired = snapshot whose opt-out payload is not empty
C6_Witness ==
    \E i \in Built :
        /\ cycles[i].state = "ok"
        /\ cycles[i].currentPreferencesSnapshot = cycles[i].originalInitialPreferences
        /\ Len(cycles[i].optOutsPayloadUpmind) >= 2
        /\ cycles[i].changedPreferencesForBrazeEvent = << >>

\* C7: the opt-out list of every save is, without repetition, exactly the
\* opt-outable cells whose desired value is false, whatever the snapshot.
C7_OptOutsAreDesiredOptOutSet ==
    \A i \in Built :
        /\ Range(cycles[i].optOutsPayloadUpmind)
             = OptOutSet(cycles[i].currentPreferencesSnapshot)
        /\ NoDuplicates(cycles[i].optOutsPayloadUpmind)

\* C7 witness: a save whose desired matrix opts out of two cells the snapshot has opted in
C7_Witness ==
    \E i \in Built :
        /\ Len(cycles[i].optOutsPayloadUpmind) >= 2
        /\ \A k \in 1..Len(cycles[i].optOutsPayloadUpmind) :
              ObjGet(cycles[i].originalInitialPreferences,
                     PrefKey(cycles[i].optOutsPayloadUpmind[k].topic_id,
                             cycles[i].optOutsPayloadUpmind[k].channel_id)) = Some(TRUE)

\* C8: the Braze payload of every save has exactly one entry per mapped cell of
\* a relevant topic, "subscribed" when the desired value is true and
\* "unsubscribed" otherwise, and no entry for any other cell.
C8_EngagementPayload ==
    \A i \in Built :
        /\ { << e[1], e[2] >> : e \in Range(cycles[i].brazeSubscriptionUpdatesSDK) }
             = GroupStates(cycles[i].currentPreferencesSnapshot)
        /\ NoDuplicates(ObjKeys(cycles[i].brazeSubscriptionUpdatesSDK))

\* C8 witness: a payload with a subscribed and an unsubscribed group, from a
\* desired matrix that also opts out of a topic that is not relevant
C8_Witness ==
    \E i \in Built :
        /\ \E e \in Range(cycles[i].brazeSubscriptionUpdatesSDK) : e[2] = "subscribed"
        /\ \E e \in Range(cycles[i].brazeSubscriptionUpdatesSDK) : e[2] = "unsubscribed"
        /\ ObjGet(cycles[i].currentPreferencesSnapshot, PrefKey(BILLING, EMAIL)) = Some(FALSE)

\* C9: the change records of a completed save are, without repetition, one
\* record per cell whose snapshot value differs from its desired value, with
\* the old state from the snapshot and the new state from the desired matrix.
C9_ChangeRecords ==
    \A i \in CycleIds :
        cycles[i].state = "ok" =>
            /\ Range(cycles[i].changedPreferencesForBrazeEvent)
                 = ChangeSet(cycles[i].originalInitialPreferences,
                             cycles[i].currentPreferencesSnapshot)
            /\ NoDuplicates(cycles[i].changedPreferencesForBrazeEvent)

\* C9 witness: a completed save with two change records, one in each direction
C9_Witness ==
    \E i \in CycleIds :
        /\ cycles[i].state = "ok"
        /\ Len(cycles[i].changedPreferencesForBrazeEvent) = 2
        /\ \E r \in Range(cycles[i].changedPreferencesForBrazeEvent) :
              r.old_state_opted_in = Some(TRUE) /\ r.new_state_opted_in = Some(FALSE)
        /\ \E r \in Range(cycles[i].changedPreferencesForBrazeEvent) :
              r.old_state_opted_in = Some(FALSE) /\ r.new_state_opted_in = Some(TRUE)

\* both matrices hold true for every cell of a non-opt-outable topic
MandatoryCellsTrue ==
    \A cell \in { x \in Cells : ~x[1].can_opt_out } :
        /\ ObjGet(preferences, CellKey(cell)) = Some(TRUE)
        /\ ObjGet(initialPreferences, CellKey(cell)) = Some(TRUE)

\* C10 as stated: in every reachable state both matrices hold true for every
\* cell of a non-opt-outable topic.
C10_MandatoryAlwaysTrue == MandatoryCellsTrue

\* C10 amended: from the successful load on, both matrices hold true for every
\* cell of a non-opt-outable topic.
C10_MandatoryTrueOnceLoaded == fetchState = "loaded" => MandatoryCellsTrue

\* C10 witness: the loaded list named a non-opt-outable cell, the user made two
\* edits and a save succeeded, and the non-opt-outable cells are still true
C10_Witness ==
    /\ fetchState = "loaded"
    /\ ObjGet(initialPreferences, PrefKey(SUPPORT, IN_APP)) = Some(FALSE)
    /\ edits >= 2
    /\ \E i \in CycleIds : cycles[i].state = "ok"
    /\ MandatoryCellsTrue

\* the opt-outable cells of the topics that are not relevant for the Braze sync
NonRelevantCells ==
    { x \in Cells : /\ x[1].can_opt_out
                    /\ ~Includes(RELEVANT_UPMIND_TOPICS_FOR_BRAZE_SYNC, x[1].id) }

\* the matrix m with the non-relevant cells rewritten: false on F, true elsewhere
WithNonRelevant(m, F) ==
    [k \in 1..Len(m) |->
        IF \E x \in NonRelevantCells : CellKey(x) = m[k][1]
        THEN << m[k][1], ~(\E x \in F : CellKey(x) = m[k][1]) >>
        ELSE m[k]]

\* C11: the Braze payload a save builds from its desired matrix is the payload
\* built from that matrix with every non-relevant key set to true; two desired
\* matrices that agree on the keys of the relevant topics have the same such
\* matrix, hence the same Braze payload, whatever their non-relevant keys hold.
C11_EngagementIgnoresNonRelevant ==
    \A i \in InFlight :
        BrazeSubscriptionUpdatesSDK(
            WithNonRelevant(cycles[i].currentPreferencesSnapshot, { }))
          = cycles[i].brazeSubscriptionUpdatesSDK

\* C11 witness: two desired matrices that differ only on non-relevant keys, the
\* one of a save that opts out of a Billing and a Support cell and the one that
\* opts out of the other Billing cell instead, with equal Braze payloads and
\* different opt-out payloads
C11_Witness ==
    \E i \in InFlight :
        /\ ObjGet(cycles[i].currentPreferencesSnapshot, PrefKey(BILLING, EMAIL)) = Some(FALSE)
        /\ ObjGet(cycles[i].currentPreferencesSnapshot, PrefKey(SUPPORT, IN_APP)) = Some(FALSE)
        /\ \E x \in NonRelevantCells :
              /\ x[1].id = BILLING /\ x[2].id = IN_APP
              /\ BrazeSubscriptionUpdatesSDK(
                     WithNonRelevant(cycles[i].currentPreferencesSnapshot, { x }))
                   = cycles[i].brazeSubscriptionUpdatesSDK
              /\ OptOutsPayloadUpmind(
                     WithNonRelevant(cycles[i].currentPreferencesSnapshot, { x }))
                   # cycles[i].optOutsPayloadUpmind

\* the cells on which the snapshot and the desired matrix of a cycle differ
ChangedCells(cycle) ==
    { x \in Cells : ObjGet(cycle.originalInitialPreferences, CellKey(x))
                      # ObjGet(cycle.currentPreferencesSnapshot, CellKey(x)) }

\* the completed saves whose only difference is one key of a topic that has no
\* row in the mapping table
OnlyUnmappedChange ==
    { i \in CycleIds :
        /\ cycles[i].state = "ok"
        /\ Cardinality(ChangedCells(cycles[i])) = 1
        /\ \A x \in ChangedCells(cycles[i]) : x[1].id \notin DOMAIN UPMIND_TO_BRAZE_MAP }

\* the opt-out payload of a cycle holds the changed cells exactly when their new state is false
AuthorityReflectsChange(cycle) ==
    \A x \in ChangedCells(cycle) :
        ([topic_id |-> x[1].id, channel_id |-> x[2].id] \in Range(cycle.optOutsPayloadUpmind))
          <=> (ObjGet(cycle.currentPreferencesSnapshot, CellKey(x)) = Some(FALSE))

\* C12 as stated: a save whose only difference is on a key of a topic without
\* a mapping entry has an opt-out payload that reflects the new state, an empty
\* Braze payload, no Braze update submitted, and exactly one change record.
C12_UnmappedChangeEmptyEngagement ==
    \A i \in OnlyUnmappedChange :
        /\ AuthorityReflectsChange(cycles[i])
        /\ cycles[i].brazeSubscriptionUpdatesSDK = << >>
        /\ ~Includes(cycles[i].effects, "braze_update")
        /\ Len(cycles[i].changedPreferencesForBrazeEvent) = 1

\* C12 amended: such a save has an opt-out payload that reflects the new state
\* and exactly one change record, for the changed key; its Braze payload is the
\* full one of the mapped groups, the same as the snapshot's, and the Braze
\* update is submitted exactly when the SDK is initialized.
C12_UnmappedChangeSameEngagement ==
    \A i \in OnlyUnmappedChange :
        /\ AuthorityReflectsChange(cycles[i])
        /\ Len(cycles[i].changedPreferencesForBrazeEvent) = 1
        /\ \A x \in ChangedCells(cycles[i]) :
              /\ cycles[i].changedPreferencesForBrazeEvent[1].topic_id = x[1].id
              /\ cycles[i].changedPreferencesForBrazeEvent[1].channel_id = x[2].id
        /\ cycles[i].brazeSubscriptionUpdatesSDK
             = BrazeSubscriptionUpdatesSDK(cycles[i].originalInitialPreferences)
        /\ Len(cycles[i].brazeSubscriptionUpdatesSDK) = Cardinality(MappedCells)
        /\ Includes(cycles[i].effects, "braze_update") <=> brazeIsInitialized

\* C12 witness: a completed save whose only change opts out of Support / Email
\* and which submitted the Braze update
C12_Witness ==
    \E i \in OnlyUnmappedChange :
        /\ ObjGet(cycles[i].originalInitialPreferences, PrefKey(SUPPORT, EMAIL)) = Some(TRUE)
        /\ ObjGet(cycles[i].currentPreferencesSnapshot, PrefKey(SUPPORT, EMAIL)) = Some(FALSE)
        /\ Includes(cycles[i].effects, "braze_update")

\* C13: a cycle whose Braze update succeeded, or was skipped because the Braze
\* payload was empty, has logged the event 'Notification Preference Updated'
\* exactly once, before it reports success; a cycle that ends in failure, of
\* the PUT or of the Braze update, has logged no event.
C13_AuditEventIffEngagementOk ==
    \A i \in CycleIds :
        /\ ( /\ cycles[i].state = "ok"
             /\ \/ cycles[i].brazeResult = "true"
                \/ cycles[i].brazeSubscriptionUpdatesSDK = << >> )
              => /\ Cardinality(Positions(cycles[i].effects, "braze_event")) = 1
                 /\ Before(cycles[i].effects, "braze_event", "set_status_success")
        /\ ( \/ cycles[i].state \in { "failed", "notoken" }
             \/ cycles[i].brazeResult = "false" )
              => Positions(cycles[i].effects, "braze_event") = { }

\* the completed saves whose Braze payload is not empty
OkWithEngagementPayload ==
    { i \in CycleIds : cycles[i].state = "ok"
                       /\ Len(cycles[i].brazeSubscriptionUpdatesSDK) > 0 }

C15_RetryAfterAuthorityFailure ==
    \A i \in CycleIds :
        (i = Len(cycles) /\ cycles[i].state = "failed" /\ InFlight = { }) =>
            /\ ContentShown
            /\ saveStatus \notin { "saving", "success" }

\* the pairs of consecutive calls of the save that both completed with the same desired matrix
SavedTwice ==
    { j \in CycleIds :
        /\ j >= 2
        /\ cycles[j].state = "ok"
        /\ cycles[j - 1].state = "ok"
        /\ cycles[j].currentPreferencesSnapshot = cycles[j - 1].currentPreferencesSnapshot }

\* C16: when the same desired matrix is saved twice in succession and both
\* saves succeed, the second save starts from the snapshot the first one left,
\* finds no change record, and leaves the snapshot the first one left.
C16_SecondSaveIdempotent ==
    \A j \in SavedTwice :
        /\ cycles[j].originalInitialPreferences = cycles[j - 1].currentPreferencesSnapshot
        /\ cycles[j].changedPreferencesForBrazeEvent = << >>
        /\ initialPreferences = cycles[j - 1].currentPreferencesSnapshot

\* C16 witness: the first save had two change records, the second, with the
\* same desired matrix, completed too
C16_Witness ==
    \E j \in SavedTwice :
        /\ Len(cycles[j - 1].changedPreferencesForBrazeEvent) = 2
        /\ cycles[j - 1].originalInitialPreferences # cycles[j].originalInitialPreferences
        /\ initialPreferences = preferences

\* a matrix that holds a boolean for every key of Topics x Channels, once
\* each, and no other key
TotalMatrix(m) ==
    /\ Range(ObjKeys(m)) = { CellKey(x) : x \in Cells }
    /\ NoDuplicates(ObjKeys(m))
    /\ \A k \in 1..Len(m) : m[k][2] \in BOOLEAN

\* C17: in every state in which the grid and the form are rendered, so that a
\* toggle, a revert or a save can be performed, the desired matrix and the
\* snapshot hold a boolean for every key of Topics x Channels and no other key.
C17_MatricesTotal ==
    ContentShown => TotalMatrix(preferences) /\ TotalMatrix(initialPreferences)

\* C17 witness: after two edits and a completed save the page is operable, the
\* two matrices differ and both are total
C17_Witness ==
    /\ ContentShown
    /\ edits >= 2
    /\ \E i \in CycleIds : cycles[i].state = "ok"
    /\ preferences # initialPreferences
    /\ TotalMatrix(preferences)
    /\ TotalMatrix(initialPreferences)

\* C18: every step of handleRevertChanges leaves the snapshot as it was and
\* makes the desired matrix equal to it, so that hasChanges is false after it.
C18_RevertRestoresSnapshot ==
    [][ handleRevertChanges =>
            /\ initialPreferences' = initialPreferences
            /\ preferences' = initialPreferences'
            /\ ~HasChanges(preferences', initialPreferences') ]_vars

\* C18 witness: a loaded page two edits on, the second of which can be the
\* revert of the first, with the desired matrix back on a snapshot that holds
\* opt-outs, and no save made
C18_Witness ==
    /\ ContentShown
    /\ edits = 2
    /\ cycles = << >>
    /\ saveStatus = "idle"
    /\ preferences = initialPreferences
    /\ ObjGet(initialPreferences, PrefKey(SUPPORT, IN_APP)) = Some(FALSE)
    /\ ~HasChanges(preferences, initialPreferences)

\* C19: the opt-out payload of every save names no topic that cannot be opted
\* out of, also when the desired matrix holds false for a key of such a topic.
C19_NoMandatoryOptOut ==
    \A i \in Built :
        \A k \in 1..Len(cycles[i].optOutsPayloadUpmind) :
            \A t \in 1..NT :
                TOPICS_DATA[t].id = cycles[i].optOutsPayloadUpmind[k].topic_id
                    => TOPICS_DATA[t].can_opt_out

\* C19 witness: a save whose desired matrix holds false for both System keys
\* and for Billing / Email; its opt-out payload names Billing and not System
C19_Witness ==
    \E i \in Built :
        /\ ObjGet(cycles[i].currentPreferencesSnapshot, PrefKey(SYSTEM, EMAIL)) = Some(FALSE)
        /\ ObjGet(cycles[i].currentPreferencesSnapshot, PrefKey(SYSTEM, IN_APP)) = Some(FALSE)
        /\ [topic_id |-> BILLING, channel_id |-> EMAIL] \in Range(cycles[i].optOutsPayloadUpmind)
        /\ \A k \in 1..Len(cycles[i].optOutsPayloadUpmind) :
              cycles[i].optOutsPayloadUpmind[k].topic_id # SYSTEM

\* whether a list holds the pair of a cell
Listed(list, x) ==
    \E j \in 1..Len(list) :
        list[j] = [topic_id |-> x[1].id, channel_id |-> x[2].id]

\* C20: after a load, the snapshot and the desired matrix are the same total
\* matrix, false exactly on the keys whose topic can be opted out of and whose
\* pair occurs in the fetched list and true on every other key; a pair of the
\* list that is no cell of the grid, or a cell of a non-opt-outable topic,
\* changes nothing.
C20_LoadedMatrix ==
    fetchState = "loaded" =>
        /\ preferences = initialPreferences
        /\ TotalMatrix(initialPreferences)
        /\ \A x \in Cells :
              ObjGet(initialPreferences, CellKey(x))
                = Some(~(x[1].can_opt_out /\ Listed(fetchedData, x)))

\* C20 witness: loaded from a list that holds an unknown pair and Billing /
\* Email; Billing / Email is false and the nine other keys are true
C20_Witness ==
    /\ fetchState = "loaded"
    /\ \E j \in 1..Len(fetchedData) : fetchedData[j].topic_id = <<"f", "f">>
    /\ ObjGet(preferences, PrefKey(BILLING, EMAIL)) = Some(FALSE)
    /\ Cardinality({ x \in Cells : ObjGet(preferences, CellKey(x)) = Some(TRUE) })
         = Cardinality(Cells) - 1

\* the positions, in the iteration order of the save, of the keys of relevant
\* topics that the table sends to group g
KeysOfGroup(g) ==
    { k \in 1..(NT * NC) :
        /\ Includes(RELEVANT_UPMIND_TOPICS_FOR_BRAZE_SYNC, SaveTopic(k).id)
        /\ BrazeGroupId(SaveTopic(k).id, SaveChannel(k).id) = Some(g) }
LastKeyOfGroup(g) == CHOOSE k \in KeysOfGroup(g) : \A j \in KeysOfGroup(g) : j <= k
\* the desired value a matrix holds at a position of the iteration order
DesiredAt(m, k) == ObjGet(m, PrefKey(SaveTopic(k).id, SaveChannel(k).id))

\* C21: the Braze payload of a save has one entry per group the table names,
\* and its state is the one of the last key, in the order topics of
\* TOPICS_DATA then channels of CHANNELS_DATA, that the table sends to it.
C21_LastKeyWins ==
    \A i \in Built :
        /\ NoDuplicates(ObjKeys(cycles[i].brazeSubscriptionUpdatesSDK))
        /\ \A e \in Range(cycles[i].brazeSubscriptionUpdatesSDK) :
              /\ KeysOfGroup(e[1]) # { }
              /\ e[2] = IF DesiredAt(cycles[i].currentPreferencesSnapshot,
                                     LastKeyOfGroup(e[1])) = Some(TRUE)
                        THEN "subscribed" ELSE "unsubscribed"
        /\ \A k \in 1..(NT * NC) :
              ( /\ Includes(RELEVANT_UPMIND_TOPICS_FOR_BRAZE_SYNC, SaveTopic(k).id)
                /\ BrazeGroupId(SaveTopic(k).id, SaveChannel(k).id) # Undefined )
                  => ObjHas(cycles[i].brazeSubscriptionUpdatesSDK,
                            BrazeGroupId(SaveTopic(k).id, SaveChannel(k).id)[1])

\* C21 witness: two keys share the Marketing Email group, the first opted in
\* and the last opted out, and the payload has the group unsubscribed
C21_Witness ==
    \E i \in Built :
        \E k1, k2 \in KeysOfGroup(BRAZE_SUBSCRIPTION_GROUPS.MARKETING_EMAIL) :
            /\ k1 < k2
            /\ DesiredAt(cycles[i].currentPreferencesSnapshot, k1) = Some(TRUE)
            /\ DesiredAt(cycles[i].currentPreferencesSnapshot, k2) = Some(FALSE)
            /\ ObjGet(cycles[i].brazeSubscriptionUpdatesSDK,
                      BRAZE_SUBSCRIPTION_GROUPS.MARKETING_EMAIL) = Some("unsubscribed")

\* C22: provided every PUT is eventually answered, a cycle that has sent its
\* PUT eventually is no longer in flight and has reported success or error;
\* and a cycle whose PUT was accepted stays as it completed: nothing is sent
\* after it to undo the write.
C22_CycleTerminates ==
    /\ \A i \in 1..MaxCycles :
          (i \in CycleIds /\ cycles[i].state = "inflight")
            ~> ( /\ i \in CycleIds
                 /\ cycles[i].state \in { "ok", "failed" }
                 /\ cycles[i].reported \in { "success", "error" } )
    /\ [][ \A i \in CycleIds :
              cycles[i].state = "ok" => cycles'[i] = cycles[i] ]_vars

\* C22 witness: two cycles sent their PUT and both have ended, one reporting
\* success and one reporting error
C22_Witness ==
    /\ Len(cycles) = 2
    /\ InFlight = { }
    /\ \E i, j \in CycleIds :
          /\ cycles[i].state = "ok" /\ cycles[i].reported = "success"
          /\ cycles[j].state = "failed" /\ cycles[j].reported = "error"

C24_SavingWhileInFlight == InFlight # { } => saveStatus = "saving"

\* the records of a list that name an opt-outable topic and a channel of the tables
KnownOptOuts(list) ==
    { r \in Range(list) :
        /\ \E t \in 1..NT : TOPICS_DATA[t].id = r.topic_id /\ TOPICS_DATA[t].can_opt_out
        /\ \E c \in 1..NC : CHANNELS_DATA[c].id = r.channel_id }

\* C25: the opt-out payload of a save made on the matrix as loaded from a
\* list holds, once each, exactly the pairs of the list that name an
\* opt-outable topic and a channel of the tables.
C25_LoadSaveRoundTrip ==
    \A i \in Built :
        /\ Range(cycles[i].optOutsPayloadUpmind) = KnownOptOuts(fetchedData)
        /\ NoDuplicates(cycles[i].optOutsPayloadUpmind)

\* C25 witness: the list held a pair of the tables and a pair that the round
\* trip drops; the payload of the save is the first pair alone
C25_Witness ==
    \E i \in Built :
        /\ Len(fetchedData) = 2
        /\ Len(cycles[i].optOutsPayloadUpmind) = 1
        /\ cycles[i].optOutsPayloadUpmind[1] \in Range(fetchedData)
        /\ cycles[i].optOutsPayloadUpmind[1].channel_id = IN_APP
        /\ \E r \in Range(fetchedData) : r \notin KnownOptOuts(fetchedData)

\* C26: a call of the save that finds no access token makes no remote call (no
\* PUT, no Braze update, no Braze event) and reports error; the step sets the
\* status to 'error' and leaves the desired matrix and the snapshot as they were.
C26_NoTokenNoRemoteCall ==
    /\ [](\A i \in CycleIds :
            cycles[i].state = "notoken" =>
                /\ cycles[i].effects = << >>
                /\ cycles[i].reported = "error")
    /\ [][ (Len(cycles') > Len(cycles) /\ cycles'[Len(cycles')].state = "notoken") =>
              /\ saveStatus' = "error"
              /\ error' # "null"
              /\ preferences' = preferences
              /\ initialPreferences' = initialPreferences
              /\ timers' = timers ]_vars

\* C26 witness: a save found no token; the status is 'error', nothing was sent
\* and the user's edit is still in the desired matrix
C26_Witness ==
    \E i \in CycleIds :
        /\ cycles[i].state = "notoken"
        /\ i = Len(cycles)
        /\ cycles[i].effects = << >>
        /\ saveStatus = "error"
        /\ HasChanges(preferences, initialPreferences)
        /\ TotalMatrix(preferences)

ResponseIds == 1..Len(dashboard.responses)

\* C27: in every answer to the popup, the Braze groups are updated and the
\* event 'Notification Preference Updated' is logged only after the ok
\* response to the PUT of an empty opt-out list, and then with the four groups
\* subscribed; an answer whose PUT was refused or threw, that found no token,
\* or whose PUT is still in flight has changed no Braze group.
C27_BulkOptInAfterAuthority ==
    \A k \in ResponseIds :
        /\ Before(dashboard.responses[k].effects, "authority_ok", "braze_update")
        /\ Before(dashboard.responses[k].effects, "authority_ok", "braze_event")
        /\ Before(dashboard.responses[k].effects, "authority_put", "authority_ok")
        /\ Includes(dashboard.responses[k].effects, "braze_update") =>
              /\ dashboard.responses[k].subscribed
              /\ dashboard.responses[k].opt_outs = << >>
              /\ Range(dashboard.responses[k].brazeSDKUpdates)
                   = { << BRAZE_SUBSCRIPTION_GROUPS[g], "subscribed" >> :
                         g \in DOMAIN BRAZE_SUBSCRIPTION_GROUPS }
        /\ ~Includes(dashboard.responses[k].effects, "authority_ok") =>
              /\ ~Includes(dashboard.responses[k].effects, "braze_update")
              /\ ~Includes(dashboard.responses[k].effects, "braze_event")
              /\ dashboard.responses[k].brazeSDKUpdates = << >>

\* C27 witness: one bulk opt-in was accepted and updated the four groups,
\* another was refused by the Authority and changed none
C27_Witness ==
    \E k, j \in ResponseIds :
        /\ Includes(dashboard.responses[k].effects, "braze_update")
        /\ Includes(dashboard.responses[k].effects, "braze_event")
        /\ Len(dashboard.responses[k].brazeSDKUpdates) = 4
        /\ Includes(dashboard.responses[j].effects, "authority_refused")
        /\ ~Includes(dashboard.responses[j].effects, "braze_update")

SubmitIds == 1..Len(registerForm.submits)

\* the four mapped cells of a matrix, as a function of the cell
RelevantCellsOf(prefs) ==
    [c \in { << t, ch >> : t \in Range(RELEVANT_UPMIND_TOPICS_FOR_BRAZE_SYNC),
                           ch \in { EMAIL, IN_APP } } |->
        ObjGet(prefs, PrefKey(c[1], c[2]))]

\* C28: on every matrix the registration reaches (the one built from the
\* fetched opt-outs, and the default one), and on the matrix the preferences
\* page builds from the same opt-out list, the map of Step 4 of handleSubmit
\* equals the Engagement payload of handleSavePreferences, and it is the map
\* handed to changeUser.
C28_SameTranslation ==
    \A k \in SubmitIds :
        registerForm.submits[k].onSuccess > 0 =>
            /\ registerForm.submits[k].brazeSubscriptionStatesForSDK
                 = BrazeSubscriptionUpdatesSDK(registerForm.submits[k].initialUpmindPrefs)
            /\ registerForm.submits[k].fetchedOptOuts # Undefined =>
                  BrazeSubscriptionStatesForSDK(CurrentPrefs(registerForm.submits[k].fetchedOptOuts[1]))
                    = BrazeSubscriptionUpdatesSDK(CurrentPrefs(registerForm.submits[k].fetchedOptOuts[1]))

\* C28 witness: a registration translated a fetched matrix in which one
\* mapped cell is opted out and another opted in, and handed it to changeUser
C28_Witness ==
    \E k \in SubmitIds :
        /\ registerForm.submits[k].outcome = "fetched"
        /\ registerForm.submits[k].changeUserCalled
        /\ ~Truthy(RelevantCellsOf(registerForm.submits[k].initialUpmindPrefs)[<< MARKETING, IN_APP >>])
        /\ Includes(registerForm.submits[k].brazeSubscriptionStatesForSDK,
                    << BRAZE_SUBSCRIPTION_GROUPS.MARKETING_IN_APP, "unsubscribed" >>)
        /\ Includes(registerForm.submits[k].brazeSubscriptionStatesForSDK,
                    << BRAZE_SUBSCRIPTION_GROUPS.SERVICE_UPDATES_EMAIL, "subscribed" >>)

\* C29: every submission the Authority accepted has, once over, called
\* onSuccess exactly once and set no error message.
C29_AcceptedReportsSuccess ==
    \A k \in SubmitIds :
        (registerForm.submits[k].accepted /\ registerForm.submits[k].pc = "done") =>
            /\ registerForm.submits[k].onSuccess = 1
            /\ ~registerForm.submits[k].setError

AuthLoaded == authProvider.mounted /\ ~authProvider.isLoadingAuth

====
